---- MODULE Spec2Model ----
(***************************************************************************)
(* Session and task runtime of openCowork (backend/core/task_runner.py,    *)
(* backend/routers/agent.py websocket_multiplexed, routers/sessions.py,    *)
(* core/session_storage.py).                                               *)
(*                                                                         *)
(* One action is one resumption of a coroutine on the asyncio loop: the    *)
(* code that runs between two suspension points.  A SessionTaskState       *)
(* object and the TaskExecution it is created with are identified by the   *)
(* execution's task id, so a worker or a subscription that keeps a         *)
(* reference to a replaced state keeps its id.                             *)
(***************************************************************************)
EXTENDS Integers, Sequences, FiniteSets, TLC

\* ---- bounds ----
MaxExec == 2
MaxYield == 1
QueueMaxsize == 1
MaxFrames == 3
MaxReq == 2
MaxSweep == 1
MaxRaw == 4
MaxCycles == 2
MaxResets == 1
MaxTools == 1
MaxEmit == 3

Sessions == {"s1"}
Clients == {"c1", "c2"}
ExecIds == 1..MaxExec
NoExec == 0
ReqIds == 1..MaxReq

VARIABLES
  sessions,     \* TaskRunner._sessions: session id -> state id (NoExec = absent)
  execution,    \* state id -> TaskExecution held by that SessionTaskState
  events,       \* state id -> SessionTaskState.events
  task,         \* state id -> phase of the asyncio.Task running _run_task
  content,      \* state id -> task_coroutine accumulated a block (assistant_content / all_blocks)
  wmsgs,        \* state id -> messages of the storage_session object captured by task_coroutine
  currentJson,  \* session id -> tasks/<id>/current.json
  eventsJsonl,  \* session id -> tasks/<id>/events.jsonl
  transcript,   \* session id -> sessions/<id>.json
  connected,    \* client -> its websocket is open
  sub,          \* client -> session id -> subscription task of that connection
  reply,        \* the last input handled and what its handler returned or sent back
  usedIds,      \* session ids Session.create has handed out (uuid4 never repeats)
  nextExec,     \* number of task ids handed out (uuid4 never repeats)
  yields,       \* number of events producers have yielded before their last
  frames,       \* number of inputs taken so far, other than connects
  turn,         \* state id -> what task_coroutine of that turn holds: the closure
                \*   variables of start_task_for_session and managed_session
  sdkFile,      \* session id -> sdk_session_id in sessions/<id>.json
  selected,     \* settings.model: the selected endpoint and model
  mgr,          \* SessionManager._sessions: session id -> ManagedSession (NoExec = absent)
  managed,      \* ManagedSession objects, named by the turn that created them
  mlock,        \* holder of SessionManager._lock
  sweep,        \* position of _cleanup_idle_sessions and the ids it has yet to look at
  sweeps,       \* number of sweeps started
  requests,     \* request id -> the call of request_user_input / request_permission
  pendingReqs,  \* keys of UserInputHandler._pending_requests
  nextReq,      \* number of request ids handed out (uuid4 never repeats)
  nextSdk,      \* number of session ids the SDK has sent in init messages
  block_state,  \* stream_message: block index -> the open content block
  emitted,      \* the events _process_stream_event has returned, in order
  raws,         \* number of SDKStreamEvents received (their uuids)
  session,      \* the autonomous SessionState as saved in state/session.json
  cycleJson,    \* cycle index -> outputs/cycle_NNNN.json
  timeline,     \* the events the orchestrator and its worker have emitted
  pc,           \* where run_async is: in which await of run_once, or over
  calls,        \* number of Worker and of Checker invocations, tool events
  workspace,    \* the files of the session directory: __output.json and its archives
  llm_result,   \* run_once: the LLMResult of the cycle's Worker invocation, once bound
  artifacts,    \* run_once: the artifacts list of the cycle
  last_result,  \* session.last_result as saved in state/session.json (<<>> is None)
  recorded,     \* the llm_result and artifacts of each record of session.history
  invoked,      \* the calls of worker.run_async: for whom, and the resume id passed
  event_history, \* SessionEventManager.event_history
  connections,  \* SessionEventManager.connections
  wsock,        \* websockets opened on /ws/{session_id} -> where connect is, what was sent
  emitting      \* the emit in progress, if any: its event, the connections to send to

vars == <<sessions, execution, events, task, content, wmsgs, currentJson,
          eventsJsonl, transcript, connected, sub, reply, usedIds, nextExec,
          yields, frames, turn, sdkFile, selected, mgr, managed, mlock, sweep,
          sweeps, requests, pendingReqs, nextReq, nextSdk, block_state,
          emitted, raws, session, cycleJson, timeline, pc, calls,
          workspace, llm_result, artifacts, last_result, recorded, invoked,
          event_history, connections, wsock, emitting>>

\* what a cycle of the orchestrator works with besides the session state
working == <<workspace, llm_result, artifacts, last_result, recorded, invoked>>

\* the event manager of an autonomous session
streaming == <<event_history, connections, wsock, emitting>>

\* the stream event processor of a turn and the orchestrator's session
processing ==
  <<block_state, emitted, raws, session, cycleJson, timeline, pc, calls>>

\* the stream event processor of a turn, the autonomous orchestrator and
\* its event manager
apart == <<processing, working, streaming>>

\* the SessionManager and the UserInputHandler with what they keep on disk
others == <<turn, sdkFile, selected, mgr, managed, mlock, sweep, sweeps,
            requests, pendingReqs, nextReq, nextSdk, apart>>

\* the task runner, the connections, the SessionManager and the
\* UserInputHandler: all that an autonomous run or the processing of a
\* stream event leaves alone
interactive ==
  <<sessions, execution, events, task, content, wmsgs, currentJson,
    eventsJsonl, transcript, connected, sub, reply, usedIds, nextExec,
    yields, frames, turn, sdkFile, selected, mgr, managed, mlock, sweep,
    sweeps, requests, pendingReqs, nextReq, nextSdk>>

\* one more input (client frame, HTTP call, restart) is taken from the bounded supply
Frame == /\ frames < MaxFrames
         /\ frames' = frames + 1

\* the input a handler was called with, and its direct answer
Reply(op, c, s, result) ==
  [op |-> op, client |-> c, session |-> s, result |-> result]

\* TaskExecution dataclass; the slot of a task id that no object carries
NoExecution ==
  [task_id |-> 0, session_id |-> "none", status |-> "idle",
   completed_at |-> FALSE, error |-> "none", was_viewed |-> FALSE,
   event_count |-> 0]

\* TaskExecution(...) as built by start_task
NewExecution(e, s) ==
  [task_id |-> e, session_id |-> s, status |-> "running",
   completed_at |-> FALSE, error |-> "none", was_viewed |-> FALSE,
   event_count |-> 0]

\* files that do not exist: current.json, events.jsonl, sessions/<id>.json
NoCurrent == NoExecution
NoLog == [exists |-> FALSE, lines |-> <<>>]
NoSession == [exists |-> FALSE, messages |-> <<>>]
Log(lines) == [exists |-> TRUE, lines |-> lines]
Stored(msgs) == [exists |-> TRUE, messages |-> msgs]

\* an event dict: its type and the execution whose producer made it
Event(t, e) == [type |-> t, src |-> e]

\* SessionMessage.create(role=...) of the turn of execution e
Message(role, e) == [role |-> role, turn |-> e]

\* a subscription task of one connection: its position in TaskRunner.subscribe,
\* the state it took, the index of the replay loop, its queue, the events it
\* has sent to the client, and whether put_nowait ever found its queue full;
\* NoSub when the connection's subscriptions dict has no such key
NoSub == [phase |-> "none", st |-> 0, idx |-> 0, queue |-> <<>>,
          got |-> <<>>, dropped |-> FALSE]

\* the endpoint and model pairs a query can name; the pair of the settings file
Configs == {"a", "b"}
DefaultConfig == "a"

\* holders of SessionManager._lock other than a worker: nobody, the sweep
LockFree == 0
SweepHolder == -1

\* what task_coroutine holds: effective endpoint and model, the resume id
\* read at the query, the websocket, the sdk_session_id field of its
\* storage_session object, and the ManagedSession get_or_create returned
NoTurn == [cfg |-> "none", resume |-> 0, ws |-> "none", sdk |-> 0, use |-> 0]

\* ManagedSession: endpoint and model, is_started, whether __aexit__ was
\* called or the object dropped, sdk_session_id, options.resume, the
\* websocket field, the websocket bound into can_use_tool, and whether
\* is_idle() holds
NoManaged ==
  [session_id |-> "none", cfg |-> "none", is_started |-> FALSE,
   closed |-> FALSE, sdk_session_id |-> 0, resume |-> 0, websocket |-> "none",
   callback |-> "none", idle |-> FALSE]

\* _cleanup_idle_sessions: not running, or suspended in __aexit__ with the
\* rest of idle_sessions still to look at
NoSweep == [pc |-> "idle", todo |-> {}]

\* a call of request_user_input or request_permission: where it is, its
\* kind, session and turn, its future, the result set on it, what it returned
NoRequest ==
  [pc |-> "none", kind |-> "none", session_id |-> "none", src |-> 0,
   future |-> "pending", value |-> "none", ret |-> "none",
   metadata |-> "none"]

\* phases in which the subscription's queue is in state.subscribers
Queued == {"live", "closing"}
\* phases in which the session id is a key of the connection's subscriptions dict
Subscribed == {"new", "replay", "live", "closing"}

\* phases in which the asyncio.Task of _run_task has not finished
Active == {"scheduled", "waitlock", "closing", "opening", "streaming",
           "cancelling"}

\* ---- the objects of the process, threaded through the statements of a handler ----
Runner ==
  [sessions |-> sessions, execution |-> execution, events |-> events,
   task |-> task, content |-> content, wmsgs |-> wmsgs,
   currentJson |-> currentJson, eventsJsonl |-> eventsJsonl,
   transcript |-> transcript, sub |-> sub,
   turn |-> turn, sdkFile |-> sdkFile, selected |-> selected, mgr |-> mgr,
   managed |-> managed, mlock |-> mlock, sweep |-> sweep, sweeps |-> sweeps,
   requests |-> requests, pendingReqs |-> pendingReqs, nextReq |-> nextReq,
   nextSdk |-> nextSdk]

\* the handler has run: its objects and files are the new state
Commit(R) ==
  \E G \in {R} :
     /\ sessions' = G.sessions
     /\ execution' = G.execution
     /\ events' = G.events
     /\ task' = G.task
     /\ content' = G.content
     /\ wmsgs' = G.wmsgs
     /\ currentJson' = G.currentJson
     /\ eventsJsonl' = G.eventsJsonl
     /\ transcript' = G.transcript
     /\ sub' = G.sub
     /\ turn' = G.turn
     /\ sdkFile' = G.sdkFile
     /\ selected' = G.selected
     /\ mgr' = G.mgr
     /\ managed' = G.managed
     /\ mlock' = G.mlock
     /\ sweep' = G.sweep
     /\ sweeps' = G.sweeps
     /\ requests' = G.requests
     /\ pendingReqs' = G.pendingReqs
     /\ nextReq' = G.nextReq
     /\ nextSdk' = G.nextSdk
     /\ UNCHANGED apart

\* TaskRunner._save_execution: mkdir + write current.json
SaveExecution(R, e) ==
  [R EXCEPT !.currentJson[R.execution[e].session_id] = R.execution[e]]

\* a put that makes room by evicting the oldest queued event
PutEvicting(q, ev) ==
  IF Len(q.queue) < QueueMaxsize
  THEN [q EXCEPT !.queue = Append(@, ev)]
  ELSE [q EXCEPT !.queue = Append(Tail(@), ev), !.dropped = TRUE]

\* queue.put_nowait of _append_event: QueueFull is swallowed
PutNowait(q, ev) ==
  IF Len(q.queue) < QueueMaxsize
  THEN [q EXCEPT !.queue = Append(@, ev)]
  ELSE [q EXCEPT !.dropped = TRUE]

\* TaskRunner._append_event
AppendEvent(R, s, ev) ==
  LET cur == R.sessions[s]
  IN IF cur = NoExec THEN R
     ELSE
       LET R1 == [R EXCEPT
                    !.events[cur] = Append(@, ev),
                    !.eventsJsonl[s] = Log(Append(@.lines, ev)),
                    !.execution[cur].event_count = Len(R.events[cur]) + 1]
           R2 == SaveExecution(R1, cur)
       IN [R2 EXCEPT !.sub =
             [c \in Clients |-> [x \in Sessions |->
                IF R2.sub[c][x].phase \in Queued /\ R2.sub[c][x].st = cur
                THEN PutNowait(R2.sub[c][x], ev)
                ELSE R2.sub[c][x]]]]

\* _run_task: the check for done or error events after an append
Observe(R, e, t) ==
  IF t = "done"
  THEN SaveExecution([R EXCEPT !.execution[e].status = "completed",
                               !.execution[e].completed_at = TRUE], e)
  ELSE IF t = "error"
  THEN SaveExecution([R EXCEPT !.execution[e].status = "error",
                               !.execution[e].error = "event",
                               !.execution[e].completed_at = TRUE], e)
  ELSE R

\* task_coroutine on an event of stream_message, before it yields it
Accumulate(R, e, t) ==
  IF t = "system"
  THEN [R EXCEPT !.turn[e].sdk = R.managed[R.turn[e].use].sdk_session_id,
                 !.sdkFile[R.execution[e].session_id] =
                    R.managed[R.turn[e].use].sdk_session_id,
                 !.transcript[R.execution[e].session_id] = Stored(R.wmsgs[e])]
  ELSE IF t = "text"
  THEN [R EXCEPT !.content[e] = TRUE]
  ELSE R

\* one iteration of the async for of _run_task
Consume(R, e, t) ==
  Observe(AppendEvent(Accumulate(R, e, t), R.execution[e].session_id,
                      Event(t, e)), e, t)

\* task_coroutine after the stream: save the assistant message
SaveAssistant(R, e) ==
  IF R.content[e]
  THEN LET msgs == Append(R.wmsgs[e], Message("assistant", e))
       IN [R EXCEPT !.wmsgs[e] = msgs,
                    !.sdkFile[R.execution[e].session_id] = R.turn[e].sdk,
                    !.transcript[R.execution[e].session_id] = Stored(msgs)]
  ELSE R

\* the except branches of _run_task
Fail(R, e, why) ==
  SaveExecution([R EXCEPT !.execution[e].status = "error",
                          !.execution[e].error = why,
                          !.execution[e].completed_at = TRUE], e)

\* the asyncio.Task of _run_task is over
Finish(R, e, how) == [R EXCEPT !.task[e] = how]

\* an is_running that looks for a finished execution instead
IsRunningCompleted(s) ==
  /\ sessions[s] # NoExec
  /\ execution[sessions[s]].status = "completed"

\* TaskRunner.is_running
IsRunning(s) ==
  /\ sessions[s] # NoExec
  /\ execution[sessions[s]].status = "running"

\* get_session_status / get_all_status
Status(s) ==
  IF sessions[s] = NoExec THEN "idle" ELSE execution[sessions[s]].status

\* has_unread of get_session_status / get_all_status
HasUnread(s) ==
  IF sessions[s] = NoExec THEN FALSE
  ELSE /\ execution[sessions[s]].status \in {"completed", "error"}
       /\ ~execution[sessions[s]].was_viewed

\* ---- TaskRunner.start_task, reached from start_task_for_session ----
\* the check under the lock: a running execution makes start_task raise ValueError
Raises(R, t) ==
  /\ R.sessions[t] # NoExec
  /\ R.execution[R.sessions[t]].status = "running"

StartTask(R, t, e) ==
  IF Raises(R, t) THEN R
  ELSE SaveExecution(
         [R EXCEPT !.sessions[t] = e,
                   !.execution[e] = NewExecution(e, t),
                   !.events[e] = <<>>,
                   !.eventsJsonl[t] = NoLog,
                   !.task[e] = "scheduled"], e)

\* start_task_for_session and the rest of the query branch: save the user
\* message, read the endpoint, model and resume id the worker will use,
\* start the task, subscribe the connection to the session; a ValueError of
\* start_task skips the subscription
StartTaskForSession(R, c, t, e, msgs, cfg) ==
  LET R1 == [R EXCEPT !.transcript[t] = Stored(msgs)]
  IN IF Raises(R1, t) THEN R1
     ELSE [StartTask([R1 EXCEPT !.wmsgs[e] = msgs], t, e)
             EXCEPT !.turn[e] = [cfg |-> cfg, resume |-> R.sdkFile[t],
                                 ws |-> c, sdk |-> R.sdkFile[t], use |-> NoExec],
                    !.sub[c][t] = IF @.phase \in Subscribed THEN @
                                  ELSE [NoSub EXCEPT !.phase = "new"]]

\* the answer to a query frame for session t: task_started, or the error frame
QueryReply(c, t) ==
  Reply("query", c, t, IF Raises(Runner, t) THEN "error" ELSE "task_started")

\* websocket_multiplexed, a query frame naming a session that is running
QueryBusy(c, sid) ==
  /\ Frame
  /\ connected[c]
  /\ IsRunning(sid)
  /\ reply' = Reply("query", c, sid, "error")
  /\ UNCHANGED <<sessions, execution, events, task, content, wmsgs,
                 currentJson, eventsJsonl, transcript, connected, sub,
                 usedIds, nextExec, yields>>
  /\ UNCHANGED others

\* a query frame naming a stored session that is not running, and no
\* endpoint or model: the selected ones of the settings are in effect
QueryKnown(c, sid) ==
  /\ Frame
  /\ connected[c]
  /\ ~IsRunning(sid)
  /\ transcript[sid].exists
  /\ nextExec < MaxExec
  /\ LET e == nextExec + 1
     IN Commit(StartTaskForSession(Runner, c, sid, e,
                  Append(transcript[sid].messages, Message("user", e)), selected))
  /\ reply' = QueryReply(c, sid)
  /\ nextExec' = IF Raises(Runner, sid) THEN nextExec ELSE nextExec + 1
  /\ UNCHANGED <<connected, usedIds, yields>>

\* the same frame naming the endpoint and model cfg
QueryNamed(c, sid, cfg) ==
  /\ Frame
  /\ connected[c]
  /\ ~IsRunning(sid)
  /\ transcript[sid].exists
  /\ nextExec < MaxExec
  /\ LET e == nextExec + 1
     IN Commit(StartTaskForSession(Runner, c, sid, e,
                  Append(transcript[sid].messages, Message("user", e)), cfg))
  /\ reply' = QueryReply(c, sid)
  /\ nextExec' = IF Raises(Runner, sid) THEN nextExec ELSE nextExec + 1
  /\ UNCHANGED <<connected, usedIds, yields>>

\* a query frame naming no stored session: create_session() makes a new id
QueryUnknown(c, sid) ==
  /\ Frame
  /\ connected[c]
  /\ ~IsRunning(sid)
  /\ ~transcript[sid].exists
  /\ nextExec < MaxExec
  /\ \E t \in Sessions \ usedIds :
       /\ LET e == nextExec + 1
          IN Commit(StartTaskForSession(Runner, c, t, e, <<Message("user", e)>>,
                                        selected))
       /\ reply' = QueryReply(c, t)
       /\ usedIds' = usedIds \cup {t}
       /\ nextExec' = IF Raises(Runner, t) THEN nextExec ELSE nextExec + 1
  /\ UNCHANGED <<connected, yields>>

\* ---- SessionManager.get_or_create, called first by task_coroutine ----
\* the ManagedSession cached for turn e's session has its endpoint and model
Reusable(R, e) ==
  LET cur == R.mgr[R.execution[e].session_id]
  IN cur # NoExec /\ R.managed[cur].cfg = R.turn[e].cfg

\* the cached ManagedSession is started, so dropping it awaits __aexit__
ClosesStarted(R, e) ==
  LET cur == R.mgr[R.execution[e].session_id]
  IN cur # NoExec /\ R.managed[cur].is_started

\* _close_session_internal: pop the session, leave its client if started
CloseSessionInternal(R, s) ==
  IF R.mgr[s] = NoExec THEN R
  ELSE [R EXCEPT !.mgr[s] = NoExec, !.managed[R.mgr[s]].closed = TRUE]

\* _create_session and the installation in _sessions: the settings take the
\* endpoint and model, the client resumes the id read at the query
CreateSession(R, e) ==
  [R EXCEPT !.selected = R.turn[e].cfg,
            !.managed[e] =
               [session_id |-> R.execution[e].session_id,
                cfg |-> R.turn[e].cfg, is_started |-> FALSE, closed |-> FALSE,
                sdk_session_id |-> R.turn[e].resume,
                resume |-> R.turn[e].resume, websocket |-> R.turn[e].ws,
                callback |-> R.turn[e].ws, idle |-> FALSE],
            !.mgr[R.execution[e].session_id] = e,
            !.turn[e].use = e,
            !.task[e] = "opening"]

\* a get_or_create that reuses whatever session is cached for the id
GetOrCreateAnyConfig(R, e) ==
  LET s == R.execution[e].session_id
      cur == R.mgr[s]
  IN IF cur # NoExec
     THEN [R EXCEPT !.managed[cur].idle = FALSE,
                    !.managed[cur].websocket = R.turn[e].ws,
                    !.turn[e].use = cur,
                    !.task[e] = "opening"]
     ELSE CreateSession(CloseSessionInternal(R, s), e)

\* get_or_create with the lock free, up to its return or to the await of
\* __aexit__ inside _close_session_internal
GetOrCreate(R, e) ==
  LET s == R.execution[e].session_id
      cur == R.mgr[s]
  IN IF Reusable(R, e)
     THEN [R EXCEPT !.managed[cur].idle = FALSE,
                    !.managed[cur].websocket = R.turn[e].ws,
                    !.turn[e].use = cur,
                    !.task[e] = "opening"]
     ELSE IF ClosesStarted(R, e)
     THEN [CloseSessionInternal(R, s) EXCEPT !.mlock = e, !.task[e] = "closing"]
     ELSE CreateSession(CloseSessionInternal(R, s), e)

\* stream_message on a session: the first one enters the client, and each
\* one refreshes last_active after its query
StartClient(R, e) ==
  IF R.task[e] = "opening"
  THEN [R EXCEPT !.managed[R.turn[e].use].is_started = TRUE,
                 !.managed[R.turn[e].use].idle = FALSE]
  ELSE R

\* ---- the background worker: TaskRunner._run_task over task_coroutine ----
\* first resumption: the lookup of the session's state, then the producer
\* runs up to its first suspension, the lock of get_or_create included
WorkerBegin(e) ==
  /\ task[e] = "scheduled"
  /\ Commit(IF sessions[execution[e].session_id] = NoExec
            THEN Finish(Runner, e, "finished")
            ELSE IF mlock # LockFree THEN Finish(Runner, e, "waitlock")
            ELSE GetOrCreate(Runner, e))
  /\ UNCHANGED <<connected, reply, usedIds, nextExec, yields, frames>>

\* the lock of get_or_create is released to a waiting worker
WorkerAcquire(e) ==
  /\ task[e] = "waitlock"
  /\ mlock = LockFree
  /\ Commit(GetOrCreate(Runner, e))
  /\ UNCHANGED <<connected, reply, usedIds, nextExec, yields, frames>>

\* __aexit__ of the replaced client returns: create, install, release
WorkerRecreate(e) ==
  /\ task[e] = "closing"
  /\ Commit(CreateSession([Runner EXCEPT !.mlock = LockFree], e))
  /\ UNCHANGED <<connected, reply, usedIds, nextExec, yields, frames>>

\* _create_session raises inside get_or_create, which is outside
\* task_coroutine's try: nothing is installed, the lock is released
WorkerRaise(e) ==
  /\ task[e] \in {"scheduled", "waitlock", "closing"}
  /\ task[e] # "closing"
     => /\ mlock = LockFree
        /\ sessions[execution[e].session_id] # NoExec
        /\ ~Reusable(Runner, e)
        /\ ~ClosesStarted(Runner, e)
  /\ Commit(Finish(Fail(CloseSessionInternal(
                          [Runner EXCEPT !.mlock = LockFree],
                          execution[e].session_id),
                        e, "exception"), e, "failed"))
  /\ UNCHANGED <<connected, reply, usedIds, nextExec, yields, frames>>

\* client.__aenter__ raises in stream_message: task_coroutine's except
\* yields an error event and returns; is_started stays False
WorkerStartFails(e) ==
  /\ task[e] = "opening"
  /\ ~managed[turn[e].use].is_started
  /\ Commit(Finish(Consume(Runner, e, "error"), e, "finished"))
  /\ UNCHANGED <<connected, reply, usedIds, nextExec, yields, frames>>

\* the SystemMessage init of a turn: the session takes the id the SDK sends,
\* task_coroutine stores it, and the system event goes out
WorkerSystem(e) ==
  /\ task[e] \in {"opening", "streaming"}
  /\ turn[e].sdk = turn[e].resume
  /\ Commit(Finish(Consume(
              [StartClient(Runner, e) EXCEPT
                 !.managed[turn[e].use].sdk_session_id = nextSdk + 1,
                 !.nextSdk = nextSdk + 1], e, "system"), e, "streaming"))
  /\ UNCHANGED <<connected, reply, usedIds, nextExec, yields, frames>>

\* the event types drawn for a yield that is not the producer's last
YieldTypes == {"text", "error"}

\* stream_message yields an event and goes on: a content event, or the
\* error event of an AssistantMessage that carries an error
WorkerYield(e, t) ==
  /\ task[e] \in {"opening", "streaming"}
  /\ yields < MaxYield
  /\ yields' = yields + 1
  /\ Commit(Finish(Consume(StartClient(Runner, e), e, t), e, "streaming"))
  /\ UNCHANGED <<connected, reply, usedIds, nextExec, frames>>

\* the first content block of a turn: stream_message yields its event and
\* task_coroutine starts to accumulate the assistant message
WorkerText(e) ==
  /\ task[e] \in {"opening", "streaming"}
  /\ ~content[e]
  /\ Commit(Finish(Consume(StartClient(Runner, e), e, "text"), e, "streaming"))
  /\ UNCHANGED <<connected, reply, usedIds, nextExec, yields, frames>>

\* ResultMessage without error: done, then the generators return
WorkerDone(e) ==
  /\ task[e] \in {"opening", "streaming"}
  /\ Commit(Finish(SaveAssistant(Consume(StartClient(Runner, e), e, "done"), e),
                   e, "finished"))
  /\ UNCHANGED <<connected, reply, usedIds, nextExec, yields, frames>>

\* ResultMessage with is_error: error, break, done, with no suspension between
WorkerResultError(e) ==
  /\ task[e] \in {"opening", "streaming"}
  /\ Commit(Finish(SaveAssistant(
              Consume(Consume(StartClient(Runner, e), e, "error"), e, "done"),
              e), e, "finished"))
  /\ UNCHANGED <<connected, reply, usedIds, nextExec, yields, frames>>

\* an exception inside the stream: one error event, then the generators return
WorkerStreamError(e) ==
  /\ task[e] \in {"opening", "streaming"}
  /\ Commit(Finish(Consume(StartClient(Runner, e), e, "error"), e, "finished"))
  /\ UNCHANGED <<connected, reply, usedIds, nextExec, yields, frames>>

\* except asyncio.CancelledError of _run_task
WorkerCancelled(e) ==
  /\ task[e] = "cancelling"
  /\ Commit(Finish(Fail([Runner EXCEPT !.mlock = IF @ = e THEN LockFree ELSE @],
                        e, "Task was cancelled"), e, "cancelled"))
  /\ UNCHANGED <<connected, reply, usedIds, nextExec, yields, frames>>

\* ---- SessionManager._cleanup_loop and _cleanup_idle_sessions ----
\* time passes: the cached session of s is older than the idle threshold
Tick(s) ==
  /\ mgr[s] # NoExec
  /\ ~managed[mgr[s]].idle
  /\ Commit([Runner EXCEPT !.managed[mgr[s]].idle = TRUE])
  /\ UNCHANGED <<connected, reply, usedIds, nextExec, yields, frames>>

\* a sweep that closes idle sessions whatever their tasks do
SweepSkipsNone(R, s) == FALSE

\* if task_runner.is_running(session_id): continue
SweepSkips(R, s) == Raises(R, s)

\* the loop over idle_sessions, up to its end or to the await of __aexit__
RECURSIVE CleanupIdleSessions(_)
CleanupIdleSessions(R) ==
  IF R.sweep.todo = {}
  THEN [R EXCEPT !.mlock = LockFree, !.sweep = NoSweep]
  ELSE LET s == CHOOSE x \in R.sweep.todo : TRUE
           R1 == [R EXCEPT !.sweep.todo = @ \ {s}]
       IN IF SweepSkips(R, s) THEN CleanupIdleSessions(R1)
          ELSE IF R.managed[R.mgr[s]].is_started
          THEN [CloseSessionInternal(R1, s) EXCEPT !.sweep.pc = "closing"]
          ELSE CleanupIdleSessions(CloseSessionInternal(R1, s))

\* the cleanup loop wakes up, takes the lock and lists the idle sessions
SweepStart ==
  /\ sweep.pc = "idle"
  /\ mlock = LockFree
  /\ sweeps < MaxSweep
  /\ Commit(CleanupIdleSessions(
              [Runner EXCEPT
                 !.sweeps = sweeps + 1,
                 !.mlock = SweepHolder,
                 !.sweep.todo = {s \in Sessions : /\ mgr[s] # NoExec
                                                  /\ managed[mgr[s]].idle}]))
  /\ UNCHANGED <<connected, reply, usedIds, nextExec, yields, frames>>

\* __aexit__ of a swept client returns: on with the loop
SweepResume ==
  /\ sweep.pc = "closing"
  /\ Commit(CleanupIdleSessions([Runner EXCEPT !.sweep.pc = "idle"]))
  /\ UNCHANGED <<connected, reply, usedIds, nextExec, yields, frames>>

\* ---- UserInputHandler, called by can_use_tool of a ManagedSession ----
\* what a frame or a caller can set on a future: an answers dict that is
\* empty or not, an approved flag, and the None of cancel_request
Answers == {"empty", "a"}
Approvals == {"true", "false"}
Truthy(v) == v \in {"a", "true"}

\* an event the handler appends for request r raised in turn e
GateEvent(t, e, r, status, answers) ==
  [type |-> t, src |-> e, request_id |-> r, status |-> status,
   answers |-> answers]

\* the request is registered and its future is not done
Pending(R, r) == r \in R.pendingReqs /\ R.requests[r].future = "pending"

\* a receive_user_response that sets the future of any registered request
ResolveAgain(R, r, v) ==
  IF r \in R.pendingReqs
  THEN [R EXCEPT !.requests[r].future = "set", !.requests[r].value = v]
  ELSE R

\* receive_user_response / receive_permission_response: set the result on
\* the future of a registered request unless the future is done
Resolve(R, r, v) ==
  IF Pending(R, r)
  THEN [R EXCEPT !.requests[r].future = "set", !.requests[r].value = v]
  ELSE R

\* can_use_tool for AskUserQuestion: request_user_input registers the
\* request, appends the ask_user event and waits for the future
AskUser(e) ==
  /\ task[e] = "streaming"
  /\ nextReq < MaxReq
  /\ LET r == nextReq + 1
         s == managed[turn[e].use].session_id
     IN Commit(AppendEvent(
                 [Runner EXCEPT
                    !.nextReq = r,
                    !.pendingReqs = @ \cup {r},
                    !.requests[r] = [NoRequest EXCEPT !.pc = "waiting",
                                                      !.kind = "ask",
                                                      !.session_id = s,
                                                      !.src = e,
                                                      !.metadata = s]],
                 s, GateEvent("ask_user", e, r, "none", "none")))
  /\ UNCHANGED <<connected, reply, usedIds, nextExec, yields, frames>>

\* can_use_tool for another tool: the permission_request goes out on the
\* websocket the session was created with, its metadata empty, then
\* request_permission registers the request and waits; it appends no event
PermissionAsk(e) ==
  /\ task[e] = "streaming"
  /\ nextReq < MaxReq
  /\ connected[managed[turn[e].use].callback]
  /\ LET r == nextReq + 1
     IN Commit([Runner EXCEPT
                  !.nextReq = r,
                  !.pendingReqs = @ \cup {r},
                  !.requests[r] = [NoRequest EXCEPT !.pc = "waiting",
                                                    !.kind = "permission",
                                                    !.src = e]])
  /\ UNCHANGED <<connected, reply, usedIds, nextExec, yields, frames>>

\* websocket_multiplexed, a user_response frame naming request r
Respond(c, r, v) ==
  /\ Frame
  /\ connected[c]
  /\ Commit(Resolve(Runner, r, v))
  /\ reply' = Reply("user_response", c, r,
                    IF Pending(Runner, r) THEN "true" ELSE "false")
  /\ UNCHANGED <<connected, usedIds, nextExec, yields>>

\* websocket_multiplexed, a permission_response frame naming request r
PermissionRespond(c, r, v) ==
  /\ Frame
  /\ connected[c]
  /\ Commit(Resolve(Runner, r, v))
  /\ reply' = Reply("permission_response", c, r,
                    IF Pending(Runner, r) THEN "true" ELSE "false")
  /\ UNCHANGED <<connected, usedIds, nextExec, yields>>

\* cancel_request: the skipped event for a request with a session id, then
\* None on the future
CancelRequest(r) ==
  /\ Frame
  /\ Commit(IF Pending(Runner, r)
            THEN Resolve(IF requests[r].session_id # "none"
                         THEN AppendEvent(Runner, requests[r].session_id,
                                GateEvent("ask_user_result", requests[r].src, r,
                                          "skipped", "none"))
                         ELSE Runner, r, "none")
            ELSE Runner)
  /\ reply' = Reply("cancel_request", "none", r,
                    IF Pending(Runner, r) THEN "true" ELSE "false")
  /\ UNCHANGED <<connected, usedIds, nextExec, yields>>

\* the timeout of asyncio.wait_for passes: the future is cancelled
Timeout(r) ==
  /\ requests[r].pc = "waiting"
  /\ requests[r].future = "pending"
  /\ Commit([Runner EXCEPT !.requests[r].future = "timeout"])
  /\ UNCHANGED <<connected, reply, usedIds, nextExec, yields, frames>>

\* what request_user_input appends once its wait is over
ResultEvent(R, r) ==
  LET q == R.requests[r]
  IN IF q.future = "timeout"
     THEN AppendEvent(R, q.session_id,
            GateEvent("ask_user_result", q.src, r, "timeout", "none"))
     ELSE IF Truthy(q.value)
     THEN AppendEvent(R, q.session_id,
            GateEvent("ask_user_result", q.src, r, "answered", q.value))
     ELSE R

\* what the waiting call returns: the answers or None of
\* request_user_input, the bool of request_permission
Returns(q) ==
  IF q.kind = "ask"
  THEN (IF q.future = "timeout" THEN "none" ELSE q.value)
  ELSE (IF q.future = "set" /\ Truthy(q.value) THEN "true" ELSE "false")

\* the waiting call resumes with its future done: the result event of
\* request_user_input, the return value, and the pop of the finally block
GateReturn(r) ==
  /\ requests[r].pc = "waiting"
  /\ requests[r].future # "pending"
  /\ Commit([(IF requests[r].kind = "ask" THEN ResultEvent(Runner, r)
              ELSE Runner)
               EXCEPT !.requests[r].pc = "returned",
                      !.requests[r].ret = Returns(requests[r]),
                      !.pendingReqs = @ \ {r}])
  /\ UNCHANGED <<connected, reply, usedIds, nextExec, yields, frames>>

\* ---- TaskRunner.mark_viewed ----
MarkViewed(R, s) ==
  IF R.sessions[s] = NoExec THEN R
  ELSE SaveExecution([R EXCEPT !.execution[R.sessions[s]].was_viewed = TRUE],
                     R.sessions[s])

\* POST /sessions/{id}/mark-read
MarkSessionRead(s) ==
  /\ Frame
  /\ Commit(MarkViewed(Runner, s))
  /\ reply' = Reply("mark_read", "none", s, "success")
  /\ UNCHANGED <<connected, usedIds, nextExec, yields>>

\* websocket_multiplexed, a subscribe frame: a session id that is not a key
\* of subscriptions gets a subscription task and is marked viewed, one that
\* is a key is left alone
Subscribe(c, s) ==
  /\ Frame
  /\ connected[c]
  /\ Commit(IF sub[c][s].phase \in Subscribed THEN Runner
            ELSE MarkViewed([Runner EXCEPT !.sub[c][s] =
                               [NoSub EXCEPT !.phase = "new"]], s))
  /\ reply' = Reply("subscribe", c, s, "none")
  /\ UNCHANGED <<connected, usedIds, nextExec, yields>>

\* websocket_multiplexed, a frame that is not JSON: json.loads raises, the
\* handler answers with an error frame and reads the next frame
BadJson(c) ==
  /\ Frame
  /\ connected[c]
  /\ Commit(Runner)
  /\ reply' = Reply("invalid_json", c, "none", "error")
  /\ UNCHANGED <<connected, usedIds, nextExec, yields>>

\* websocket_multiplexed, a JSON frame whose type is none of user_response,
\* permission_response, subscribe, unsubscribe, query: no branch is taken,
\* nothing is sent, the handler reads the next frame
UnknownType(c) ==
  /\ Frame
  /\ connected[c]
  /\ Commit(Runner)
  /\ reply' = Reply("unknown_type", c, "none", "none")
  /\ UNCHANGED <<connected, usedIds, nextExec, yields>>

\* websocket_multiplexed, an unsubscribe frame: cancel the task, drop the key
Unsubscribe(c, s) ==
  /\ Frame
  /\ connected[c]
  /\ sub[c][s].phase \in Subscribed
  /\ Commit([Runner EXCEPT !.sub[c][s] = NoSub])
  /\ reply' = Reply("unsubscribe", c, s, "none")
  /\ UNCHANGED <<connected, usedIds, nextExec, yields>>

\* TaskRunner.subscribe after the cached events have been yielded
AfterReplay(q) ==
  IF execution[q.st].status \in {"completed", "error"}
  THEN NoSub
  ELSE [q EXCEPT !.phase = "live", !.idx = 0, !.queue = <<>>]

\* TaskRunner.subscribe, the loop over state.events: one event per resumption
Replay(q) ==
  IF q.idx < Len(events[q.st])
  THEN [q EXCEPT !.phase = "replay", !.idx = @ + 1,
                 !.got = Append(@, events[q.st][q.idx + 1])]
  ELSE AfterReplay(q)

\* one resumption of subscribe_to_session around TaskRunner.subscribe
SubNext(q, s) ==
  CASE q.phase = "new" ->
         IF sessions[s] = NoExec
         THEN NoSub
         ELSE Replay([q EXCEPT !.st = sessions[s]])
    [] q.phase = "replay" -> Replay(q)
    [] q.phase = "live" ->
         [q EXCEPT !.queue = Tail(@),
                   !.got = Append(@, Head(q.queue)),
                   !.phase = IF Head(q.queue).type \in {"done", "error"}
                             THEN "closing" ELSE "live"]
    [] q.phase = "closing" -> NoSub

SubStep(c, s) ==
  /\ sub[c][s].phase \in Subscribed
  /\ sub[c][s].phase = "live" => sub[c][s].queue # <<>>
  /\ Commit([Runner EXCEPT !.sub[c][s] = SubNext(@, s)])
  /\ UNCHANGED <<connected, reply, usedIds, nextExec, yields, frames>>

\* a client opens /ws/multiplexed: subscriptions = {}
Connect(c) ==
  /\ ~connected[c]
  /\ connected' = [connected EXCEPT ![c] = TRUE]
  /\ UNCHANGED <<sessions, execution, events, task, content, wmsgs,
                 currentJson, eventsJsonl, transcript, sub, reply, usedIds,
                 nextExec, yields, frames>>
  /\ UNCHANGED others

\* Task.cancel(): a task that never ran is cancelled without running its
\* handler, a suspended one gets CancelledError at its next resumption
Cancel(ph) ==
  IF ph = "scheduled" THEN "cancelled"
  ELSE IF ph \in {"waitlock", "closing", "opening", "streaming"}
  THEN "cancelling"
  ELSE ph

\* a disconnect that also cancels the workers of the sessions it was subscribed to
DisconnectCancelling(c) ==
  /\ Frame
  /\ connected[c]
  /\ connected' = [connected EXCEPT ![c] = FALSE]
  /\ Commit([Runner EXCEPT
               !.sub[c] = [s \in Sessions |-> NoSub],
               !.task = [e \in ExecIds |->
                           IF \E s \in Sessions : /\ sub[c][s].phase \in Subscribed
                                                  /\ sessions[s] = e
                           THEN Cancel(task[e]) ELSE task[e]]])
  /\ reply' = Reply("disconnect", c, "none", "none")
  /\ UNCHANGED <<usedIds, nextExec, yields>>

\* WebSocketDisconnect: the finally block cancels every subscription task
Disconnect(c) ==
  /\ Frame
  /\ connected[c]
  /\ connected' = [connected EXCEPT ![c] = FALSE]
  /\ Commit([Runner EXCEPT !.sub[c] = [s \in Sessions |-> NoSub]])
  /\ reply' = Reply("disconnect", c, "none", "none")
  /\ UNCHANGED <<usedIds, nextExec, yields>>

\* TaskRunner.clear_session
ClearSession(R, s) ==
  IF R.sessions[s] = NoExec THEN R
  ELSE [R EXCEPT !.sessions[s] = NoExec,
                 !.task[R.sessions[s]] = Cancel(@),
                 !.currentJson[s] = NoCurrent,
                 !.eventsJsonl[s] = NoLog]

\* DELETE /sessions/{id}: clear_session, then session_storage.delete_session
DeleteSession(s) ==
  /\ Frame
  /\ ~(sessions[s] = NoExec /\ ~transcript[s].exists)
  /\ Commit([ClearSession(Runner, s) EXCEPT !.transcript[s] = NoSession,
                                            !.sdkFile[s] = 0])
  /\ reply' = Reply("delete", "none", s, IF transcript[s].exists THEN "success" ELSE "404")
  /\ UNCHANGED <<connected, usedIds, nextExec, yields>>

\* ---- TaskRunner.interrupt_session ----
\* no state, or a status other than running: return False
InterruptIdle(s) ==
  /\ Frame
  /\ ~IsRunning(s)
  /\ reply' = Reply("interrupt", "none", s, "false")
  /\ UNCHANGED <<sessions, execution, events, task, content, wmsgs,
                 currentJson, eventsJsonl, transcript, connected, sub,
                 usedIds, nextExec, yields>>
  /\ UNCHANGED others

\* running: the call session_manager.interrupt_session(session_id) is made,
\* and SessionManager defines no such method: AttributeError leaves the
\* function before any statement that changes the execution or appends
InterruptRunning(s) ==
  /\ Frame
  /\ IsRunning(s)
  /\ reply' = Reply("interrupt", "none", s, "AttributeError")
  /\ UNCHANGED <<sessions, execution, events, task, content, wmsgs,
                 currentJson, eventsJsonl, transcript, connected, sub,
                 usedIds, nextExec, yields>>
  /\ UNCHANGED others

\* ---- the process dies and is started again: TaskRunner._restore_persisted_state ----
Promote(d) ==
  IF d.status = "running"
  THEN [d EXCEPT !.status = "error",
                 !.error = "Server restarted during execution",
                 !.completed_at = TRUE,
                 !.was_viewed = FALSE]
  ELSE d

\* the session directories whose current.json holds task id e
DirOf(e) == {s \in Sessions : currentJson[s].task_id = e}

Restart ==
  /\ Frame
  /\ sessions' = [s \in Sessions |-> currentJson[s].task_id]
  /\ execution' = [e \in ExecIds |->
                     IF DirOf(e) # {}
                     THEN Promote(currentJson[CHOOSE s \in DirOf(e) : TRUE])
                     ELSE NoExecution]
  /\ events' = [e \in ExecIds |->
                  IF DirOf(e) # {}
                  THEN eventsJsonl[CHOOSE s \in DirOf(e) : TRUE].lines
                  ELSE <<>>]
  /\ currentJson' = [s \in Sessions |->
                       IF currentJson[s] = NoCurrent THEN NoCurrent
                       ELSE Promote(currentJson[s])]
  /\ task' = [e \in ExecIds |-> "none"]
  /\ content' = [e \in ExecIds |-> FALSE]
  /\ wmsgs' = [e \in ExecIds |-> <<>>]
  /\ connected' = [c \in Clients |-> FALSE]
  /\ sub' = [c \in Clients |-> [s \in Sessions |-> NoSub]]
  /\ reply' = Reply("restart", "none", "none", "none")
  /\ turn' = [e \in ExecIds |-> NoTurn]
  /\ selected' = DefaultConfig
  /\ mgr' = [s \in Sessions |-> NoExec]
  /\ managed' = [e \in ExecIds |-> NoManaged]
  /\ mlock' = LockFree
  /\ sweep' = NoSweep
  /\ requests' = [r \in ReqIds |-> NoRequest]
  /\ pendingReqs' = {}
  /\ UNCHANGED <<eventsJsonl, transcript, usedIds, nextExec, yields, sdkFile,
                 sweeps, nextReq, nextSdk>>
  /\ UNCHANGED apart


\* ------------------------------------------------------------------
\* _process_stream_event: the raw SDK stream events of one turn become
\* start / delta / end events per content block
\* ------------------------------------------------------------------

Indexes == {0, 1}

BlockTypes == {"text", "tool_use", "thinking"}

DeltaTypes == {"text_delta", "input_json_delta", "thinking_delta"}

NoId == <<"none", 0, 0>>

NoBlock == [type |-> "none", id |-> NoId, content |-> FALSE]

\* an event of the turn; index is the content block the raw event named
StreamEvent(type, id, index) == [type |-> type, id |-> id, index |-> index]

\* the id a content_block_start gives its block: text blocks from the raw
\* event's uuid and the index, tool blocks from the id of the tool call
\* (one per call), thinking blocks from the index alone
BlockId(bt, uuid, index) ==
  IF bt = "text" THEN <<"text", uuid, index>>
  ELSE IF bt = "tool_use" THEN <<"tool", uuid, 0>>
  ELSE <<"thinking", 0, index>>

StartType(bt) ==
  IF bt = "text" THEN "text_start"
  ELSE IF bt = "thinking" THEN "thinking_start"
  ELSE "tool_input_start"

DeltaType(bt) ==
  IF bt = "text" THEN "text_delta"
  ELSE IF bt = "thinking" THEN "thinking_delta"
  ELSE "tool_input_delta"

EndType(bt) ==
  IF bt = "text" THEN "text_end"
  ELSE IF bt = "thinking" THEN "thinking_end"
  ELSE "tool_input_end"

\* the delta type that matches the type a block is kept under
Matches(dt, bt) ==
  \/ dt = "text_delta" /\ bt = "text"
  \/ dt = "input_json_delta" /\ bt = "tool"
  \/ dt = "thinking_delta" /\ bt = "thinking"

\* a content_block_stop that reads the block and leaves it in block_state
AfterStopKept(index) == block_state

\* content_block_stop takes the block out of block_state
AfterStop(index) == [block_state EXCEPT ![index] = NoBlock]

\* message_start: a start event for the message, no block touched
MessageStart ==
  /\ raws < MaxRaw
  /\ raws' = raws + 1
  /\ emitted' = Append(emitted, StreamEvent("start", NoId, -1))
  /\ UNCHANGED <<block_state, session, cycleJson, timeline, pc, calls>>
  /\ UNCHANGED streaming
  /\ UNCHANGED working
  /\ UNCHANGED interactive

\* content_block_start: the block is entered under its index, replacing
\* whatever was there, and its start event carries the new id
BlockStart(index, bt) ==
  /\ raws < MaxRaw
  /\ raws' = raws + 1
  /\ block_state' =
       [block_state EXCEPT
          ![index] = [type |-> (IF bt = "tool_use" THEN "tool" ELSE bt),
                      id |-> BlockId(bt, raws', index),
                      content |-> FALSE]]
  /\ emitted' = Append(emitted, StreamEvent(StartType(bt),
                                            BlockId(bt, raws', index), index))
  /\ UNCHANGED <<session, cycleJson, timeline, pc, calls>>
  /\ UNCHANGED streaming
  /\ UNCHANGED working
  /\ UNCHANGED interactive

\* content_block_delta: nothing for an index without an open block or for
\* a delta of another type; else a delta event under the block's id, and
\* the text is added to the block's content
BlockDelta(index, dt, nonempty) ==
  /\ raws < MaxRaw
  /\ raws' = raws + 1
  /\ IF block_state[index] = NoBlock
       \/ ~Matches(dt, block_state[index].type)
     THEN UNCHANGED <<block_state, emitted>>
     ELSE /\ emitted' =
               Append(emitted,
                      StreamEvent(DeltaType(block_state[index].type),
                                  block_state[index].id, index))
          /\ block_state' =
               [block_state EXCEPT
                  ![index].content =
                     IF block_state[index].type = "tool" THEN @
                     ELSE @ \/ nonempty]
  /\ UNCHANGED <<session, cycleJson, timeline, pc, calls>>
  /\ UNCHANGED streaming
  /\ UNCHANGED working
  /\ UNCHANGED interactive

\* content_block_stop: nothing for an index without an open block; else
\* the end event under the block's id, then for a text or thinking block
\* with content the aggregated event, and the block is gone
BlockStop(index) ==
  /\ raws < MaxRaw
  /\ raws' = raws + 1
  /\ IF block_state[index] = NoBlock
     THEN UNCHANGED <<block_state, emitted>>
     ELSE /\ emitted' =
               (IF block_state[index].type # "tool"
                   /\ block_state[index].content
                THEN Append(Append(emitted,
                                   StreamEvent(EndType(block_state[index].type),
                                               block_state[index].id, index)),
                            StreamEvent(block_state[index].type, NoId, index))
                ELSE Append(emitted,
                            StreamEvent(EndType(block_state[index].type),
                                        block_state[index].id, index)))
          /\ block_state' = AfterStop(index)
  /\ UNCHANGED <<session, cycleJson, timeline, pc, calls>>
  /\ UNCHANGED streaming
  /\ UNCHANGED working
  /\ UNCHANGED interactive

\* the next stream_message call starts from an empty block_state
NewStream ==
  /\ block_state # [i \in Indexes |-> NoBlock]
  /\ block_state' = [i \in Indexes |-> NoBlock]
  /\ UNCHANGED <<emitted, raws, session, cycleJson, timeline, pc, calls>>
  /\ UNCHANGED streaming
  /\ UNCHANGED working
  /\ UNCHANGED interactive


\* ------------------------------------------------------------------
\* Orchestrator: the autonomous Worker / Checker cycle of one session
\* ------------------------------------------------------------------

STATUS_PENDING == "pending"

STATUS_RUNNING == "running"

STATUS_COMPLETED == "completed"

STATUS_FAILED == "failed"

\* an input payload: what it is made of and, for review feedback, the
\* verdict it reports
Payload(kind, verdict) == [kind |-> kind, verdict |-> verdict]

\* task.inputs
TaskInputs == Payload("inputs", "none")

NoSessionState ==
  [status |-> "none", cycle_count |-> 0, max_cycles |-> 0,
   input_payload |-> Payload("none", "none"), history |-> <<>>,
   reset_on_max_cycles |-> FALSE, reset_count |-> 0, max_resets |-> 0,
   last_error |-> "none"]

NoCycle ==
  [cycle_index |-> 0, input_payload |-> Payload("none", "none"),
   error |-> FALSE, passed |-> FALSE, checker_reason |-> "none"]

\* what the Checker's answer says under "verdict"; "malformed" is an
\* answer that holds no JSON object
Verdicts == {"passed", "failed", "needs_improvement", "Passed", "malformed"}

\* the LLMResults a Checker invocation returns
CheckerOutputs ==
  {[error |-> FALSE, verdict |-> v] : v \in Verdicts}
  \cup {[error |-> TRUE, verdict |-> "passed"]}

CheckerResult(passed, reason, next_input) ==
  [passed |-> passed, reason |-> reason, next_input |-> next_input]

\* a parse that takes the verdict without regard to case
ParseAnyCase(out) ==
  IF out.verdict \in {"passed", "Passed"}
  THEN [passed |-> TRUE, reason |-> "verified_passed",
        next_input |-> [kind |-> "none", verdict |-> "none"]]
  ELSE [passed |-> FALSE, reason |-> out.verdict,
        next_input |-> [kind |-> "review", verdict |-> out.verdict]]

\* the reason of a verdict other than passed begins with the verdict
_parse_checker_verdict(out) ==
  IF out.error
  THEN CheckerResult(FALSE, "checker_error", Payload("error_feedback", "none"))
  ELSE IF out.verdict = "malformed"
  THEN CheckerResult(FALSE, "checker_parsing_error",
                     Payload("malformed", "none"))
  ELSE IF out.verdict = "passed"
  THEN CheckerResult(TRUE, "verified_passed", Payload("none", "none"))
  ELSE CheckerResult(FALSE, out.verdict, Payload("review", out.verdict))

_build_cycle_record(cycle_index, input_payload, error, checker_result) ==
  [cycle_index |-> cycle_index, input_payload |-> input_payload,
   error |-> error, passed |-> checker_result.passed,
   checker_reason |-> checker_result.reason]

Emit(type, cycle) == Append(timeline, [type |-> type, cycle |-> cycle])

Terminal(st) == st.status \in {STATUS_COMPLETED, STATUS_FAILED}

\* a budget test that lets the count pass the budget
AtBudgetStrict(st) == st.cycle_count > st.max_cycles

\* run_once takes no cycle once the count has reached the budget
AtBudget(st) == st.cycle_count >= st.max_cycles

\* a limit test that allows one reset more
CanResetInclusive(st) == st.reset_count <= st.max_resets

_can_reset(st) ==
  IF st.max_resets <= 0 THEN FALSE ELSE st.reset_count < st.max_resets

\* a reset that keeps the last feedback as input
ResetKeepingPayload(st) ==
  [st EXCEPT !.reset_count = @ + 1, !.cycle_count = 0, !.status = "pending"]

_reset_session(st) ==
  [st EXCEPT !.reset_count = @ + 1, !.cycle_count = 0,
             !.status = STATUS_PENDING, !.input_payload = TaskInputs]

_handle_max_cycles(st) ==
  IF st.reset_on_max_cycles /\ _can_reset(st)
  THEN _reset_session(st)
  ELSE [st EXCEPT !.status = STATUS_FAILED, !.last_error = "max_cycles"]

\* an except branch that records the cycle and leaves the session running
WorkerFailedRunning(st) ==
  [st EXCEPT
     !.history =
        Append(@, [cycle_index |-> st.cycle_count + 1,
                   input_payload |-> st.input_payload, error |-> TRUE,
                   passed |-> FALSE, checker_reason |-> "worker_exception"]),
     !.cycle_count = @ + 1,
     !.last_error = "worker_exception"]

\* the except branch of run_once: the cycle is recorded with the error and
\* the session fails
WorkerFailed(st) ==
  [st EXCEPT
     !.history =
        Append(@, _build_cycle_record(
                    st.cycle_count + 1, st.input_payload, TRUE,
                    CheckerResult(FALSE, "worker_exception",
                                  Payload("none", "none")))),
     !.cycle_count = @ + 1,
     !.last_error = "worker_exception",
     !.status = STATUS_FAILED]

\* the end of run_once: the cycle is recorded under the Checker's result
Reviewed(st, cr) ==
  [st EXCEPT
     !.history =
        Append(@, _build_cycle_record(st.cycle_count + 1, st.input_payload,
                                      FALSE, cr)),
     !.cycle_count = @ + 1,
     !.status = IF cr.passed THEN STATUS_COMPLETED ELSE STATUS_RUNNING,
     !.input_payload = IF cr.passed THEN @ ELSE cr.next_input]

\* the name of __output.json, and n for __output_cycle_<n>.json
OutputName == 0

\* a file of the workspace: its name, who wrote it, in which of its
\* invocations, and whether it holds (or can be repaired to) a JSON object
File(by, call, valid) ==
  [name |-> OutputName, by |-> by, call |-> call, valid |-> valid]

\* the files named __output.json: none or one
Output(w) == {f \in w : f.name = OutputName}

\* writing file f replaces the file of that name
Write(w, f) == {g \in w : g.name # f.name} \cup {f}

\* LLMResult: the external session id (0 is None), the structured output
\* its text was replaced with (none: the Worker's own text), the error
NoResult == [sdk_session_id |-> 0, text |-> {}, error |-> "none"]

\* a run_once that never resumes
ResumeNothing(last) == 0

\* run_once: the id to resume is the one of session.last_result, if there
\* is a last result
ResumeToken(last) == IF last = <<>> THEN 0 ELSE last[1].sdk_session_id

\* a run_once that leaves what the workspace holds
CleanupSkipped(w) == w

\* run_once: __output.json is unlinked before the Worker is invoked
Cleanup(w) == w \ Output(w)

\* run_once after the Worker has returned: __output.json is there and parses
Ingestible(w) == \E f \in Output(w) : f.valid

\* the LLMResult after the ingestion: the text replaced, or the error set
Ingested(result, w) ==
  IF Output(w) = {} THEN result
  ELSE IF Ingestible(w) THEN [result EXCEPT !.text = Output(w)]
  ELSE [result EXCEPT !.error = "output"]

\* shutil.copy of __output.json to the archive of cycle n
Archived(w, n) ==
  IF Ingestible(w)
  THEN Write(w, [(CHOOSE f \in Output(w) : TRUE) EXCEPT !.name = n])
  ELSE w

\* create_session, then run_async is called on the session
CreateAutoSession(mc, roc, mr, custom) ==
  /\ pc = "none"
  /\ session' =
       [NoSessionState EXCEPT
          !.status = STATUS_PENDING, !.max_cycles = mc,
          !.input_payload =
             IF custom THEN Payload("custom", "none") ELSE TaskInputs,
          !.reset_on_max_cycles = roc, !.max_resets = mr]
  /\ pc' = "loop"
  /\ UNCHANGED <<block_state, emitted, raws, cycleJson, timeline, calls>>
  /\ UNCHANGED streaming
  /\ UNCHANGED working
  /\ UNCHANGED interactive

\* run_async finds the session completed or failed and returns it
RunReturns ==
  /\ pc = "loop"
  /\ Terminal(session)
  /\ pc' = "done"
  /\ UNCHANGED <<block_state, emitted, raws, session, cycleJson, timeline,
                 calls>>
  /\ UNCHANGED streaming
  /\ UNCHANGED working
  /\ UNCHANGED interactive

\* run_once at the budget: the session is reset or fails
RunOnceAtBudget ==
  /\ pc = "loop"
  /\ ~Terminal(session)
  /\ AtBudget(session)
  /\ session' = _handle_max_cycles(session)
  /\ UNCHANGED <<block_state, emitted, raws, cycleJson, timeline, pc, calls>>
  /\ UNCHANGED streaming
  /\ UNCHANGED working
  /\ UNCHANGED interactive

\* run_once below the budget, up to the Worker's first await: the session
\* is saved as running, the cycle announced and the Worker invoked
RunOnceCycle ==
  /\ pc = "loop"
  /\ ~Terminal(session)
  /\ ~AtBudget(session)
  /\ session' = [session EXCEPT !.status = STATUS_RUNNING]
  /\ timeline' =
       Append(Emit("cycle_start", session.cycle_count + 1),
              [type |-> "worker_start", cycle |-> session.cycle_count + 1])
  /\ calls' = [calls EXCEPT !.worker = @ + 1]
  /\ pc' = "worker"
  /\ UNCHANGED <<block_state, emitted, raws, cycleJson>>
  /\ UNCHANGED streaming
  /\ workspace' = Cleanup(workspace)
  /\ llm_result' =
       <<[NoResult EXCEPT !.sdk_session_id = ResumeToken(last_result)]>>
  /\ artifacts' = {}
  /\ invoked' = Append(invoked, [role |-> "worker",
                                  resume |-> ResumeToken(last_result)])
  /\ UNCHANGED <<last_result, recorded>>
  /\ UNCHANGED interactive

\* the invocation in progress reports a tool call
ToolCall ==
  /\ pc \in {"worker", "checker"}
  /\ calls.tools < MaxTools
  /\ calls' = [calls EXCEPT !.tools = @ + 1]
  /\ timeline' = Emit("worker_tool_call", session.cycle_count + 1)
  /\ UNCHANGED <<block_state, emitted, raws, session, cycleJson, pc>>
  /\ UNCHANGED streaming
  /\ UNCHANGED working
  /\ UNCHANGED interactive

\* the SDK's init message reaches the Worker invocation in progress: the
\* result will carry the id of that message
WorkerInit ==
  /\ pc = "worker"
  /\ llm_result[1].sdk_session_id # calls.worker
  /\ llm_result' = <<[llm_result[1] EXCEPT !.sdk_session_id = calls.worker]>>
  /\ UNCHANGED <<workspace, artifacts, last_result, recorded, invoked>>
  /\ UNCHANGED processing
  /\ UNCHANGED streaming
  /\ UNCHANGED interactive

\* a tool of the Worker invocation in progress writes __output.json
WorkerWrites(valid) ==
  /\ pc = "worker"
  /\ File("worker", calls.worker, valid) \notin workspace
  /\ workspace' = Write(workspace, File("worker", calls.worker, valid))
  /\ UNCHANGED <<llm_result, artifacts, last_result, recorded, invoked>>
  /\ UNCHANGED processing
  /\ UNCHANGED streaming
  /\ UNCHANGED interactive

\* a tool of the Checker invocation in progress writes __output.json
CheckerWrites ==
  /\ pc = "checker"
  /\ File("checker", calls.checker, TRUE) \notin workspace
  /\ workspace' = Write(workspace, File("checker", calls.checker, TRUE))
  /\ UNCHANGED <<llm_result, artifacts, last_result, recorded, invoked>>
  /\ UNCHANGED processing
  /\ UNCHANGED streaming
  /\ UNCHANGED interactive

\* the Worker returns: __output.json is ingested and archived if it is
\* there, then run_once announces the Checker and invokes it, with the same
\* worker object and the same event callback
WorkerReturns ==
  /\ pc = "worker"
  /\ timeline' =
       Append(Append(Emit("worker_complete", session.cycle_count + 1),
                     [type |-> "checker_start",
                      cycle |-> session.cycle_count + 1]),
              [type |-> "worker_start", cycle |-> session.cycle_count + 1])
  /\ calls' = [calls EXCEPT !.checker = @ + 1]
  /\ pc' = "checker"
  /\ UNCHANGED <<block_state, emitted, raws, session, cycleJson>>
  /\ UNCHANGED streaming
  /\ llm_result' = <<Ingested(llm_result[1], workspace)>>
  /\ artifacts' =
       IF Ingestible(workspace) THEN {session.cycle_count + 1} ELSE {}
  /\ workspace' = Archived(workspace, session.cycle_count + 1)
  /\ invoked' = Append(invoked, [role |-> "checker", resume |-> 0])
  /\ UNCHANGED <<last_result, recorded>>
  /\ UNCHANGED interactive

\* the Worker raises: the cycle is recorded and saved, the session fails
WorkerRaises ==
  /\ pc = "worker"
  /\ session' = WorkerFailed(session)
  /\ cycleJson' =
       [cycleJson EXCEPT
          ![session.cycle_count + 1] =
             WorkerFailed(session).history[Len(session.history) + 1]]
  /\ pc' = "loop"
  /\ UNCHANGED <<block_state, emitted, raws, timeline, calls>>
  /\ UNCHANGED streaming
  /\ llm_result' = <<[NoResult EXCEPT !.error = "exception"]>>
  /\ artifacts' = {}
  /\ last_result' = llm_result'
  /\ recorded' = Append(recorded, [llm_result |-> llm_result'[1],
                                    artifacts |-> {}])
  /\ UNCHANGED <<workspace, invoked>>
  /\ UNCHANGED interactive

\* the Checker returns: its answer is parsed, the cycle recorded and saved
CheckerReturns(out) ==
  /\ pc = "checker"
  /\ session' = Reviewed(session, _parse_checker_verdict(out))
  /\ cycleJson' =
       [cycleJson EXCEPT
          ![session.cycle_count + 1] =
             session'.history[Len(session.history) + 1]]
  /\ timeline' =
       Append(Emit("checker_complete", session.cycle_count + 1),
              [type |-> "cycle_end", cycle |-> session.cycle_count + 1])
  /\ pc' = "loop"
  /\ UNCHANGED <<block_state, emitted, raws, calls>>
  /\ UNCHANGED streaming
  /\ last_result' = llm_result
  /\ recorded' = Append(recorded, [llm_result |-> llm_result[1],
                                    artifacts |-> artifacts])
  /\ UNCHANGED <<workspace, llm_result, artifacts, invoked>>
  /\ UNCHANGED interactive

\* the Checker invocation raises: nothing in run_once or run_async catches
\* it, the caller of run_async reports a session error
CheckerRaises ==
  /\ pc = "checker"
  /\ timeline' = Emit("session_error", session.cycle_count + 1)
  /\ pc' = "aborted"
  /\ UNCHANGED <<block_state, emitted, raws, session, cycleJson, calls>>
  /\ UNCHANGED streaming
  /\ UNCHANGED working
  /\ UNCHANGED interactive

\* ------------------------------------------------------------------
\* SessionEventManager: the event stream of an autonomous session
\* ------------------------------------------------------------------

\* connect, the loop over event_history: the next event is sent, or the
\* list is exhausted and connect returns
ReplayNext(q, history) ==
  IF q.idx < Len(history)
  THEN [q EXCEPT !.idx = @ + 1, !.got = Append(@, history[q.idx + 1])]
  ELSE [q EXCEPT !.phase = "live"]

\* emit, the loop over connections under the lock: the send to the next one
SentNext(socks, m) ==
  IF m.todo = <<>> THEN socks
  ELSE [socks EXCEPT ![Head(m.todo)].got = Append(@, m.ev)]

\* emit after that send: the rest of the loop, or the lock released
EmitNext(m) ==
  IF m.todo = <<>> THEN <<>> ELSE <<[m EXCEPT !.todo = Tail(@)]>>

\* a client opens /ws/{session_id}: connect awaits websocket.accept(). A
\* websocket is kept with where connect is, the index of its replay loop
\* and the events sent on it
StreamConnect(w) ==
  /\ w \notin DOMAIN wsock
  /\ wsock' = wsock @@ (w :> [phase |-> "accepting", idx |-> 0, got |-> <<>>])
  /\ UNCHANGED <<event_history, connections, emitting>>
  /\ UNCHANGED processing
  /\ UNCHANGED working
  /\ UNCHANGED interactive

\* connect with the lock free: the websocket joins connections, the lock is
\* released and the replay loop runs up to its first send
StreamRegister(w) ==
  /\ w \in DOMAIN wsock
  /\ wsock[w].phase = "accepting"
  /\ emitting = <<>>
  /\ connections' = Append(connections, w)
  /\ wsock' = [wsock EXCEPT
                 ![w] = ReplayNext([@ EXCEPT !.phase = "replay"], event_history)]
  /\ UNCHANGED <<event_history, emitting>>
  /\ UNCHANGED processing
  /\ UNCHANGED working
  /\ UNCHANGED interactive

\* the replay loop of connect resumes after a send
StreamReplay(w) ==
  /\ w \in DOMAIN wsock
  /\ wsock[w].phase = "replay"
  /\ wsock' = [wsock EXCEPT ![w] = ReplayNext(@, event_history)]
  /\ UNCHANGED <<event_history, connections, emitting>>
  /\ UNCHANGED processing
  /\ UNCHANGED working
  /\ UNCHANGED interactive

\* emit: the event joins event_history, the lock is taken and the event is
\* sent to the first connection
StreamEmit ==
  /\ emitting = <<>>
  /\ Len(event_history) < MaxEmit
  /\ event_history' = Append(event_history, Len(event_history) + 1)
  /\ \E m \in {[ev |-> Len(event_history) + 1, todo |-> connections]} :
       /\ wsock' = SentNext(wsock, m)
       /\ emitting' = EmitNext(m)
  /\ UNCHANGED connections
  /\ UNCHANGED processing
  /\ UNCHANGED working
  /\ UNCHANGED interactive

\* the loop of emit resumes after a send: the next connection, or the end
StreamSend ==
  /\ emitting # <<>>
  /\ wsock' = SentNext(wsock, emitting[1])
  /\ emitting' = EmitNext(emitting[1])
  /\ UNCHANGED <<event_history, connections>>
  /\ UNCHANGED processing
  /\ UNCHANGED working
  /\ UNCHANGED interactive

\* the client closes a websocket whose handler waits in receive_text:
\* disconnect takes the lock and removes it from connections
StreamDisconnect(w) ==
  /\ w \in DOMAIN wsock
  /\ wsock[w].phase = "live"
  /\ emitting = <<>>
  /\ connections' = SelectSeq(connections, LAMBDA x : x # w)
  /\ wsock' = [wsock EXCEPT ![w].phase = "closed"]
  /\ UNCHANGED <<event_history, emitting>>
  /\ UNCHANGED processing
  /\ UNCHANGED working
  /\ UNCHANGED interactive

Init ==
  /\ sessions = [s \in Sessions |-> NoExec]
  /\ execution = [e \in ExecIds |-> NoExecution]
  /\ events = [e \in ExecIds |-> <<>>]
  /\ task = [e \in ExecIds |-> "none"]
  /\ content = [e \in ExecIds |-> FALSE]
  /\ wmsgs = [e \in ExecIds |-> <<>>]
  /\ currentJson = [s \in Sessions |-> NoCurrent]
  /\ eventsJsonl = [s \in Sessions |-> NoLog]
  /\ transcript = [s \in Sessions |-> NoSession]
  /\ connected = [c \in Clients |-> FALSE]
  /\ sub = [c \in Clients |-> [s \in Sessions |-> NoSub]]
  /\ reply = Reply("none", "none", "none", "none")
  /\ usedIds = {}
  /\ nextExec = 0
  /\ yields = 0
  /\ frames = 0
  /\ turn = [e \in ExecIds |-> NoTurn]
  /\ sdkFile = [s \in Sessions |-> 0]
  /\ selected = DefaultConfig
  /\ mgr = [s \in Sessions |-> NoExec]
  /\ managed = [e \in ExecIds |-> NoManaged]
  /\ mlock = LockFree
  /\ sweep = NoSweep
  /\ sweeps = 0
  /\ requests = [r \in ReqIds |-> NoRequest]
  /\ pendingReqs = {}
  /\ nextReq = 0
  /\ nextSdk = 0
  /\ block_state = [i \in Indexes |-> NoBlock]
  /\ emitted = <<>>
  /\ raws = 0
  /\ session = NoSessionState
  /\ cycleJson = [n \in 1..MaxCycles |-> NoCycle]
  /\ timeline = <<>>
  /\ pc = "none"
  /\ calls = [worker |-> 0, checker |-> 0, tools |-> 0]
  /\ workspace = {}
  /\ llm_result = <<>>
  /\ artifacts = {}
  /\ last_result = <<>>
  /\ recorded = <<>>
  /\ invoked = <<>>
  /\ event_history = <<>>
  /\ connections = <<>>
  /\ wsock = <<>>
  /\ emitting = <<>>

Next ==
  \/ \E c \in Clients, s \in Sessions : QueryBusy(c, s)
  \/ \E c \in Clients, s \in Sessions : QueryKnown(c, s)
  \/ \E c \in Clients, s \in Sessions : QueryUnknown(c, s)
  \/ \E e \in ExecIds : WorkerBegin(e)
  \/ \E e \in ExecIds : WorkerRaise(e)
  \/ \E e \in ExecIds, t \in YieldTypes : WorkerYield(e, t)
  \/ \E e \in ExecIds : WorkerDone(e)
  \/ \E e \in ExecIds : WorkerResultError(e)
  \/ \E e \in ExecIds : WorkerStreamError(e)
  \/ \E e \in ExecIds : WorkerCancelled(e)
  \/ \E s \in Sessions : MarkSessionRead(s)
  \/ \E c \in Clients, s \in Sessions : Subscribe(c, s)
  \/ \E c \in Clients, s \in Sessions : Unsubscribe(c, s)
  \/ \E c \in Clients, s \in Sessions : SubStep(c, s)
  \/ \E c \in Clients : Connect(c)
  \/ \E c \in Clients : Disconnect(c)
  \/ \E s \in Sessions : DeleteSession(s)
  \/ \E s \in Sessions : InterruptIdle(s)
  \/ \E s \in Sessions : InterruptRunning(s)
  \/ Restart

Spec == Init /\ [][Next]_vars

\* the session manager under queries that name endpoints and models, start
\* failures, deletions and the idle sweep
NextManager ==
  \/ \E c \in Clients : Connect(c)
  \/ \E c \in Clients, sid \in Sessions : QueryUnknown(c, sid)
  \/ \E c \in Clients, sid \in Sessions, cfg \in Configs : QueryNamed(c, sid, cfg)
  \/ \E e \in ExecIds : WorkerBegin(e)
  \/ \E e \in ExecIds : WorkerAcquire(e)
  \/ \E e \in ExecIds : WorkerRecreate(e)
  \/ \E e \in ExecIds : WorkerRaise(e)
  \/ \E e \in ExecIds : WorkerStartFails(e)
  \/ \E e \in ExecIds : WorkerSystem(e)
  \/ \E e \in ExecIds : WorkerYield(e, "error")
  \/ \E e \in ExecIds : WorkerDone(e)
  \/ \E e \in ExecIds : WorkerCancelled(e)
  \/ \E s \in Sessions : DeleteSession(s)
  \/ \E s \in Sessions : Tick(s)
  \/ SweepStart
  \/ SweepResume

ManagerSpec == Init /\ [][NextManager]_vars

\* the requests of can_use_tool against the frames that answer them
NextGate ==
  \/ \E c \in Clients : Connect(c)
  \/ \E c \in Clients, sid \in Sessions : QueryUnknown(c, sid)
  \/ \E e \in ExecIds : WorkerBegin(e)
  \/ \E e \in ExecIds : WorkerYield(e, "text")
  \/ \E e \in ExecIds : WorkerDone(e)
  \/ \E e \in ExecIds : AskUser(e)
  \/ \E e \in ExecIds : PermissionAsk(e)
  \/ \E c \in Clients, r \in ReqIds, v \in Answers : Respond(c, r, v)
  \/ \E c \in Clients, r \in ReqIds, v \in Approvals : PermissionRespond(c, r, v)
  \/ \E r \in ReqIds : CancelRequest(r)
  \/ \E r \in ReqIds : Timeout(r)
  \/ \E r \in ReqIds : GateReturn(r)
  \/ \E c \in Clients : Disconnect(c)
  \/ \E s \in Sessions : DeleteSession(s)

GateSpec == Init /\ [][NextGate]_vars

NextFrame ==
  \/ \E c \in Clients : Connect(c)
  \/ \E c \in Clients, sid \in Sessions : QueryUnknown(c, sid)
  \/ \E c \in Clients, s \in Sessions : Subscribe(c, s)
  \/ \E c \in Clients, s \in Sessions : Unsubscribe(c, s)
  \/ \E c \in Clients, s \in Sessions : SubStep(c, s)
  \/ \E c \in Clients : BadJson(c)
  \/ \E c \in Clients : UnknownType(c)
  \/ \E c \in Clients : Disconnect(c)
  \/ \E e \in ExecIds : WorkerBegin(e)
  \/ \E e \in ExecIds : WorkerYield(e, "text")
  \/ \E e \in ExecIds : WorkerDone(e)

\* the frame loop of the multiplexed channel with well-formed and
\* ill-formed frames
FrameSpec == Init /\ [][NextFrame]_vars

NextBlock ==
  \/ MessageStart
  \/ \E i \in Indexes, bt \in BlockTypes : BlockStart(i, bt)
  \/ \E i \in Indexes, dt \in DeltaTypes, ne \in BOOLEAN :
       BlockDelta(i, dt, ne)
  \/ \E i \in Indexes : BlockStop(i)
  \/ NewStream

\* the processing of the raw stream events of a session's turns
BlockSpec == Init /\ [][NextBlock]_vars

NextAuto ==
  \/ \E mc \in 0..MaxCycles, roc \in BOOLEAN, mr \in 0..MaxResets,
        custom \in BOOLEAN : CreateAutoSession(mc, roc, mr, custom)
  \/ RunReturns
  \/ RunOnceAtBudget
  \/ RunOnceCycle
  \/ ToolCall
  \/ WorkerReturns
  \/ WorkerRaises
  \/ \E out \in CheckerOutputs : CheckerReturns(out)
  \/ CheckerRaises

\* an autonomous run
AutoSpec == Init /\ [][NextAuto]_vars

NextReturning ==
  \/ \E mc \in 0..MaxCycles, roc \in BOOLEAN, mr \in 0..MaxResets,
        custom \in BOOLEAN : CreateAutoSession(mc, roc, mr, custom)
  \/ RunReturns
  \/ RunOnceAtBudget
  \/ RunOnceCycle
  \/ WorkerReturns
  \/ \E out \in CheckerOutputs : CheckerReturns(out)

\* the control flow of an autonomous run in which every invocation returns
\* and the event loop keeps running the coroutine
ReturningSpec ==
  Init /\ [][NextReturning]_vars /\ WF_vars(NextReturning)

NextTranscript ==
  \/ \E c \in Clients : Connect(c)
  \/ \E c \in Clients, sid \in Sessions : QueryUnknown(c, sid)
  \/ \E c \in Clients, sid \in Sessions : QueryKnown(c, sid)
  \/ \E e \in ExecIds : WorkerBegin(e)
  \/ \E e \in ExecIds : WorkerSystem(e)
  \/ \E e \in ExecIds : WorkerText(e)
  \/ \E e \in ExecIds : WorkerYield(e, "error")
  \/ \E e \in ExecIds : WorkerDone(e)
  \/ \E s \in Sessions : DeleteSession(s)

\* the turns of a session and what they save in sessions/<id>.json
TranscriptSpec == Init /\ [][NextTranscript]_vars

NextReconnect ==
  \/ \E c \in Clients : Connect(c)
  \/ \E c \in Clients : Disconnect(c)
  \/ \E c \in Clients, sid \in Sessions : QueryUnknown(c, sid)
  \/ \E c \in Clients, sid \in Sessions : QueryKnown(c, sid)
  \/ \E e \in ExecIds : WorkerBegin(e)
  \/ \E e \in ExecIds : WorkerText(e)
  \/ \E e \in ExecIds : WorkerDone(e)
  \/ \E e \in ExecIds : PermissionAsk(e)
  \/ \E c \in Clients, r \in ReqIds, v \in Approvals : PermissionRespond(c, r, v)
  \/ \E r \in ReqIds : Timeout(r)
  \/ \E r \in ReqIds : GateReturn(r)

\* turns of one session started from different connections, and the
\* permission requests of their tool calls
ReconnectSpec == Init /\ [][NextReconnect]_vars

NextStream ==
  \/ \E w \in Clients : StreamConnect(w)
  \/ \E w \in Clients : StreamRegister(w)
  \/ \E w \in Clients : StreamReplay(w)
  \/ StreamEmit
  \/ StreamSend
  \/ \E w \in Clients : StreamDisconnect(w)

\* the event stream of an autonomous session and the clients that connect
\* to it while events are emitted
StreamSpec == Init /\ [][NextStream]_vars

\* the Checker answers with a verdict that accepts the work or asks for more
NextResume ==
  \/ \E mc \in 1..MaxCycles, mr \in 0..MaxResets :
       CreateAutoSession(mc, TRUE, mr, FALSE)
  \/ RunReturns
  \/ RunOnceAtBudget
  \/ RunOnceCycle
  \/ WorkerInit
  \/ WorkerReturns
  \/ WorkerRaises
  \/ \E out \in {o \in CheckerOutputs :
                   ~o.error /\ o.verdict \in {"passed", "failed"}} :
       CheckerReturns(out)

\* the cycles of an autonomous run and the external session ids their
\* invocations are given and return
ResumeSpec == Init /\ [][NextResume]_vars

NextOutput ==
  \/ \E mc \in 1..MaxCycles, mr \in 0..MaxResets :
       CreateAutoSession(mc, TRUE, mr, FALSE)
  \/ RunReturns
  \/ RunOnceAtBudget
  \/ RunOnceCycle
  \/ \E valid \in BOOLEAN : WorkerWrites(valid)
  \/ WorkerReturns
  \/ WorkerRaises
  \/ CheckerWrites
  \/ \E out \in {o \in CheckerOutputs :
                   ~o.error /\ o.verdict \in {"passed", "failed"}} :
       CheckerReturns(out)

\* the cycles of an autonomous run and the __output.json files that the
\* Worker and the Checker leave in the workspace
OutputSpec == Init /\ [][NextOutput]_vars

\* ---- properties ----
\* the events a step appended to the cache of state e
Appended(e) == SubSeq(events'[e], Len(events[e]) + 1, Len(events'[e]))

\* a step that handled an input of kind op
Handled(op) == frames' # frames /\ reply'.op = op

\* the session has an execution whose status is running
Running(s) == sessions[s] # NoExec /\ execution[sessions[s]].status = "running"

\* C1: a session never has two background workers that are consuming a
\* producer at the same time, whatever the interleaving of queries, events
\* and interrupts
C1_OneWorkerPerSession ==
  \A s \in Sessions :
    Cardinality({e \in ExecIds : /\ execution[e].session_id = s
                                 /\ task[e] \in {"opening", "streaming"}}) <= 1

\* C2: a subscription whose queue never overflowed has, when it ends by
\* itself, delivered every event of the execution it subscribed to, once each
\* and in append order
C2_SubscriberGetsEveryEvent ==
  [][\A c \in Clients, s \in Sessions :
       (/\ frames' = frames
        /\ sub[c][s].phase \in {"replay", "closing"}
        /\ sub'[c][s].phase = "none"
        /\ ~sub[c][s].dropped)
       => sub[c][s].got = events[sub[c][s].st]]_vars

\* C3: a worker that ends abnormally appends exactly one terminal event: a
\* producer exception sets the status to error and appends one error event,
\* a cancellation appends one done event
C3_AbnormalEndAppendsTerminal ==
  [][\A e \in ExecIds :
       (/\ frames' = frames
        /\ task[e] \in Active
        /\ task'[e] \in {"failed", "cancelled"})
       => /\ Len(Appended(e)) = 1
          /\ task'[e] = "failed" => /\ execution'[e].status = "error"
                                    /\ Appended(e)[1].type = "error"
          /\ task'[e] = "cancelled" => Appended(e)[1].type = "done"]_vars

\* C4: a query frame for a session whose status is running is answered with
\* an error naming that session and changes nothing: no execution is created,
\* no event appended, log, cache and transcript are untouched, the worker and
\* the subscriptions stay as they are
C4_BusyQueryChangesNothing ==
  [][\A s \in Sessions :
       (Handled("query") /\ reply'.session = s /\ Running(s))
       => /\ reply'.result = "error"
          /\ UNCHANGED <<sessions, execution, events, task, content, wmsgs,
                         currentJson, eventsJsonl, transcript, sub, nextExec>>]_vars

\* a query frame has just been refused for a session whose worker is streaming
C4_Witness ==
  \E s \in Sessions :
    /\ reply.op = "query" /\ reply.session = s /\ reply.result = "error"
    /\ Running(s)
    /\ task[sessions[s]] = "streaming"

\* C5: interrupt_session on a running session returns true, leaves the
\* status completed and appends exactly one system event and then one done
\* event; on a session that is not running it returns false and changes nothing
C5_InterruptCompletes ==
  [][\A s \in Sessions :
       (Handled("interrupt") /\ reply'.session = s)
       => IF Running(s)
          THEN /\ reply'.result = "true"
               /\ sessions'[s] = sessions[s]
               /\ execution'[sessions[s]].status = "completed"
               /\ Len(Appended(sessions[s])) = 2
               /\ Appended(sessions[s])[1].type = "system"
               /\ Appended(sessions[s])[2].type = "done"
          ELSE /\ reply'.result = "false"
               /\ UNCHANGED <<sessions, execution, events, task, currentJson,
                              eventsJsonl, transcript, sub>>]_vars

\* C6: a restart while a task is running leaves that session with status
\* error for the reason "Server restarted during execution", its viewed flag
\* cleared and its cache equal to the events on disk, and leaves no session
\* with status running
C6_RestartRecovers ==
  [][Handled("restart")
     => \A s \in Sessions :
          /\ sessions'[s] # NoExec => execution'[sessions'[s]].status # "running"
          /\ Running(s)
             => /\ sessions'[s] # NoExec
                /\ execution'[sessions'[s]].status = "error"
                /\ execution'[sessions'[s]].error = "Server restarted during execution"
                /\ ~execution'[sessions'[s]].was_viewed
                /\ events'[sessions'[s]] = eventsJsonl[s].lines]_vars

\* C7: a done or error event that takes an execution from running to
\* completed or error leaves completed_at set and the viewed flag cleared,
\* also when the session was marked viewed while it was running
C7_TerminalClearsViewed ==
  [][\A e \in ExecIds :
       (/\ frames' = frames
        /\ execution[e].status = "running"
        /\ execution'[e].status \in {"completed", "error"}
        /\ Appended(e) # <<>>)
       => /\ execution'[e].completed_at
          /\ ~execution'[e].was_viewed]_vars

\* the step appended a done or error event to the current execution of s
TerminalEventOn(s) ==
  /\ sessions[s] # NoExec
  /\ sessions'[s] = sessions[s]
  /\ \E i \in 1..Len(Appended(sessions[s])) :
       Appended(sessions[s])[i].type \in {"done", "error"}

\* C8: has_unread is true only of a completed or error execution whose
\* viewed flag is false; a mark-read call or a subscribe frame for the session
\* leaves it false; and once the session is viewed it turns true only in a
\* step that appends a terminal event to the session (the restart recovery,
\* which ends a running execution without an event, is counted as one)
C8_UnreadUntilTerminalEvent ==
  [][\A s \in Sessions :
       /\ HasUnread(s)' <=> /\ Status(s)' \in {"completed", "error"}
                            /\ ~execution'[sessions'[s]].was_viewed
       /\ ((Handled("mark_read") \/ Handled("subscribe")) /\ reply'.session = s)
          => ~HasUnread(s)'
       /\ (/\ sessions[s] # NoExec
           /\ execution[sessions[s]].was_viewed
           /\ HasUnread(s)')
          => TerminalEventOn(s) \/ Handled("restart")]_vars

\* C9: an append to a session with a subscriber whose queue is full drops
\* the event for that subscriber only: the cache and the disk log get every
\* appended event, and every subscriber queue gets as many of them as it has
\* room for
C9_OverflowDropsForThatSubscriberOnly ==
  [][\A e \in ExecIds :
       (frames' = frames /\ Len(events'[e]) > Len(events[e]))
       => /\ events'[e] = events[e] \o Appended(e)
          /\ eventsJsonl'[execution[e].session_id].lines
               = eventsJsonl[execution[e].session_id].lines \o Appended(e)
          /\ \A c \in Clients, s \in Sessions :
               (sub[c][s].phase \in Queued /\ sub[c][s].st = e)
               => LET room == QueueMaxsize - Len(sub[c][s].queue)
                      fit == IF Len(Appended(e)) < room
                             THEN Len(Appended(e)) ELSE room
                  IN /\ sub'[c][s].queue
                          = sub[c][s].queue \o SubSeq(Appended(e), 1, fit)
                     /\ sub'[c][s].got = sub[c][s].got
                     /\ sub'[c][s].phase = sub[c][s].phase]_vars

\* two subscribers of one execution: the last appended event was dropped for
\* the one whose queue was full, reached the other, and is in cache and log
C9_Witness ==
  \E c, d \in Clients, s \in Sessions :
    /\ c # d
    /\ sessions[s] # NoExec
    /\ events[sessions[s]] # <<>>
    /\ eventsJsonl[s].lines = events[sessions[s]]
    /\ sub[c][s].phase \in Queued /\ sub[c][s].st = sessions[s]
    /\ sub[d][s].phase \in Queued /\ sub[d][s].st = sessions[s]
    /\ sub[c][s].dropped
    /\ Len(sub[c][s].queue) = QueueMaxsize
    /\ sub[c][s].queue[QueueMaxsize] # events[sessions[s]][Len(events[sessions[s]])]
    /\ ~sub[d][s].dropped
    /\ sub[d][s].queue # <<>>
    /\ sub[d][s].queue[Len(sub[d][s].queue)]
         = events[sessions[s]][Len(events[sessions[s]])]

\* C10: a disconnect ends every subscription of that connection and nothing
\* else: no worker is cancelled, executions, caches and logs stay as they
\* are, other connections keep their subscriptions; and a subscription that
\* replays has delivered a prefix of the cache of the execution it took
C10_DisconnectKeepsWorkers ==
  [][/\ \A c \in Clients :
          (Handled("disconnect") /\ reply'.client = c)
          => /\ \A s \in Sessions : sub'[c][s] = NoSub
             /\ \A d \in Clients \ {c} : sub'[d] = sub[d]
             /\ UNCHANGED <<sessions, execution, events, task, currentJson,
                            eventsJsonl, transcript>>
     /\ \A c \in Clients, s \in Sessions :
          sub'[c][s].phase = "replay"
          => sub'[c][s].got
               = SubSeq(events'[sub'[c][s].st], 1, Len(sub'[c][s].got))]_vars

\* a connection has just gone away while the worker of a session goes on
\* streaming, with events in the cache for a later subscriber
C10_Witness ==
  \E c \in Clients, e \in ExecIds :
    /\ reply.op = "disconnect" /\ reply.client = c
    /\ ~connected[c]
    /\ task[e] = "streaming"
    /\ execution[e].status = "running"
    /\ events[e] # <<>>

\* C11: a deletion leaves the session without in-memory task state, with
\* its worker cancelled and without current.json and events.jsonl; and a
\* session without task state gets none, and no task files, in any step but
\* the start of a new task for it, a restart included
C11_ClearedStaysCleared ==
  [][\A s \in Sessions :
       /\ (Handled("delete") /\ reply'.session = s)
          => /\ sessions'[s] = NoExec
             /\ sessions[s] # NoExec
                => task'[sessions[s]] \notin {"scheduled", "opening", "streaming"}
       /\ (sessions[s] = NoExec /\ ~(Handled("query") /\ reply'.session = s))
          => /\ sessions'[s] = NoExec
             /\ currentJson'[s] = NoCurrent
             /\ eventsJsonl'[s] = NoLog]_vars

\* C20: among the events one turn puts into a cache nothing follows an error
\* or done event, and the events of a turn whose worker has returned end
\* with a done or error event
C20_OneTerminalEventLast ==
  \A x, e \in ExecIds :
    /\ \A i, j \in 1..Len(events[x]) :
         (/\ i < j
          /\ events[x][i].src = e
          /\ events[x][j].src = e)
         => events[x][i].type \notin {"done", "error"}
    /\ (x = e /\ task[e] = "finished" /\ events[e] # <<>>)
       => events[e][Len(events[e])].type \in {"done", "error"}

\* ---- the session manager ----
\* get_or_create returns to the worker of turn e in this step
Returned(e) == turn[e].use = NoExec /\ turn'[e].use # NoExec

\* the ManagedSession objects of session s that are neither closed nor dropped
Open(s) == {m \in ExecIds : managed[m].session_id = s /\ ~managed[m].closed}

\* the newest id an init message has delivered for session s: ids are
\* handed out in increasing order
Latest(s) ==
  LET ids == {sdkFile[s]} \cup
             {managed[m].sdk_session_id :
                m \in {x \in ExecIds : managed[x].session_id = s}}
  IN CHOOSE i \in ids : \A j \in ids : j <= i

\* the idle sweep takes this step
Sweeping == sweeps' # sweeps \/ (sweep.pc = "closing" /\ sweep' # sweep)

\* C15: when get_or_create returns, it returns the cached session of the
\* id, unchanged but for its refreshed age and its rebound websocket, exactly
\* if that session has the endpoint and model asked for; otherwise it returns
\* a new session installed for the id, and a session it replaces is closed;
\* and a session id never has two open sessions, the cached one being it
C15_ReuseIffSameConfig ==
  [][/\ \A e \in ExecIds :
          Returned(e) =>
            LET s == execution[e].session_id
                cur == mgr[s]
            IN IF cur # NoExec /\ managed[cur].cfg = turn[e].cfg
               THEN /\ turn'[e].use = cur
                    /\ mgr'[s] = cur
                    /\ managed'[cur] = [managed[cur] EXCEPT
                                          !.idle = FALSE,
                                          !.websocket = turn[e].ws]
               ELSE /\ turn'[e].use = e
                    /\ mgr'[s] = e
                    /\ managed[e] = NoManaged
                    /\ managed'[e].cfg = turn[e].cfg
                    /\ ~managed'[e].is_started
                    /\ cur # NoExec => managed'[cur].closed
     /\ \A s \in Sessions :
          /\ Cardinality(Open(s)) <= 1
          /\ Open(s) \subseteq {mgr[s]}]_vars

\* a worker has been handed the session another turn created, bound now to
\* its own websocket and not to the one the session was created with
C15_Witness ==
  \E e \in ExecIds :
    /\ turn[e].use \notin {NoExec, e}
    /\ managed[turn[e].use].websocket = turn[e].ws
    /\ managed[turn[e].use].callback # turn[e].ws

\* C16: a session created for an id that had a session before resumes the
\* newest SDK session id captured for that id
C16_RecreateResumesLatest ==
  [][\A e \in ExecIds :
       (/\ managed[e] = NoManaged
        /\ managed'[e] # NoManaged
        /\ \E m \in ExecIds : managed[m].session_id = managed'[e].session_id)
       => managed'[e].resume = Latest(managed'[e].session_id)]_vars

C18_DeleteClosesManaged ==
  [][\A s \in Sessions :
       (Handled("delete") /\ reply'.session = s)
       => /\ mgr'[s] = NoExec
          /\ \A m \in ExecIds : managed'[m].session_id = s => managed'[m].closed]_vars

\* C19: a turn that ends because the client of its session could not be
\* started ends with an error event, and leaves no session cached for the id
C19_StartFailureNotCached ==
  [][\A e \in ExecIds :
       (/\ task[e] = "opening"
        /\ task'[e] = "finished"
        /\ ~managed'[turn[e].use].is_started)
       => /\ \E x \in ExecIds : Appended(x) = <<Event("error", e)>>
          /\ mgr'[execution[e].session_id] = NoExec]_vars

\* ---- the requests of can_use_tool ----
\* the waiting call of request r returns in this step
Returning(r) == requests[r].pc = "waiting" /\ requests'[r].pc = "returned"

\* where the caches hold, after the step, an event of one of the types for r
Logged(r, types) ==
  UNION {{<<x, i>> : i \in {j \in 1..Len(events'[x]) :
                              /\ events'[x][j].type \in types
                              /\ events'[x][j].request_id = r}} :
         x \in ExecIds}

\* a user_response, permission_response or cancel_request is handled
Answered ==
  Handled("user_response") \/ Handled("permission_response")
  \/ Handled("cancel_request")

\* C12: when the call of an ask-user or permission request returns, the
\* event caches hold its request event and exactly one result event for it
C12_RequestAndOneResultLogged ==
  [][\A r \in ReqIds :
       Returning(r)
       => /\ Cardinality(Logged(r, {"ask_user", "permission_request"})) = 1
          /\ Cardinality(Logged(r, {"ask_user_result", "permission_result"})) = 1]_vars

\* C13: an ask-user call whose future a response frame has set to answers A
\* returns A and appends, as it returns, the ask_user_result event with
\* status answered and answers A, whether A is empty or not
C13_AnsweredReturnsAndLogsAnswers ==
  [][\A r \in ReqIds :
       (/\ Returning(r)
        /\ requests[r].kind = "ask"
        /\ requests[r].future = "set"
        /\ requests[r].value \in Answers)
       => /\ requests'[r].ret = requests[r].value
          /\ \E x \in ExecIds :
               Appended(x) = <<GateEvent("ask_user_result", requests[r].src, r,
                                         "answered", requests[r].value)>>]_vars

\* C14: a future that is done keeps its outcome; a response or cancel for
\* a request that is not registered or whose future is done returns false
\* and changes no request, no registration and no event cache, and one for
\* a pending request returns true; a response or cancel naming one id changes
\* no other request; and a call that has returned is no longer registered
C14_ResolvedAtMostOnce ==
  [][\A r \in ReqIds :
       /\ requests[r].future # "pending"
          => /\ requests'[r].future = requests[r].future
             /\ requests'[r].value = requests[r].value
       /\ (Answered /\ reply'.session = r)
          => /\ reply'.result = (IF Pending(Runner, r) THEN "true" ELSE "false")
             /\ ~Pending(Runner, r)
                => /\ requests' = requests
                   /\ pendingReqs' = pendingReqs
                   /\ events' = events
             /\ \A q \in ReqIds \ {r} : requests'[q] = requests[q]
       /\ requests'[r].pc = "returned" => r \notin pendingReqs'
       /\ requests'[r].pc = "waiting" => r \in pendingReqs']_vars

\* a second response for a request whose future holds the first one's
\* answers has been refused, while another request is still pending
C14_Witness ==
  /\ reply.op = "user_response"
  /\ reply.result = "false"
  /\ \E r, q \in ReqIds :
       /\ reply.session = r
       /\ requests[r].future = "set"
       /\ requests[r].value \in Answers
       /\ q # r
       /\ Pending(Runner, q)

\* the kinds of events of a content block
Starts == {"text_start", "tool_input_start", "thinking_start"}

Deltas == {"text_delta", "tool_input_delta", "thinking_delta"}

Ends == {"text_end", "tool_input_end", "thinking_end"}

\* the block type an event type belongs to
KindOf(type) ==
  IF type \in {"text_start", "text_delta", "text_end", "text"} THEN "text"
  ELSE IF type \in {"thinking_start", "thinking_delta", "thinking_end",
                    "thinking"} THEN "thinking"
  ELSE "tool_use"

C22_RequestFramesNameSession ==
  [][\A r \in ReqIds :
       (requests[r].pc = "none" /\ requests'[r].pc # "none")
       => requests'[r].metadata
            = managed[turn[requests'[r].src].use].session_id]_vars

\* C23: a frame that is not JSON and a frame of an unknown type are both
\* answered with an error report on the client's channel, and leave the
\* channel open, the subscriptions and the tasks as they were
C23_BadFrameReported ==
  [][(Handled("invalid_json") \/ Handled("unknown_type"))
     => /\ reply'.result = "error"
        /\ connected' = connected
        /\ sub' = sub
        /\ task' = task
        /\ execution' = execution]_vars

\* the last cycle record of a history
LastRecord(h) == h[Len(h)]

\* the Checker invocation of a cycle returns
CheckerReturning == pc = "checker" /\ pc' = "loop"

C25_CheckerFailureRecorded ==
  [][(/\ pc = "checker"
      /\ \/ pc' = "aborted"
         \/ /\ pc' = "loop"
            /\ LastRecord(session'.history).checker_reason
                 = "checker_parsing_error")
     => /\ Len(session'.history) = Len(session.history) + 1
        /\ ~LastRecord(session'.history).passed
        /\ session'.status = STATUS_RUNNING
        /\ pc' = "loop"]_vars

\* the Worker invocation of a cycle ends by raising
WorkerRaising == pc = "worker" /\ pc' # "worker" /\ pc' # "checker"

\* C26: when the Worker raises, a record with the error and the verdict
\* worker_exception is appended to the history and saved under its cycle
\* index, the cycle count grows by one, the session fails and the Checker
\* is not invoked; and nothing is invoked for a failed session
C26_WorkerExceptionFails ==
  [][/\ WorkerRaising
        => /\ Len(session'.history) = Len(session.history) + 1
           /\ SubSeq(session'.history, 1, Len(session.history))
                = session.history
           /\ LastRecord(session'.history).error
           /\ LastRecord(session'.history).checker_reason = "worker_exception"
           /\ LastRecord(session'.history).cycle_index
                = session.cycle_count + 1
           /\ cycleJson'[session.cycle_count + 1]
                = LastRecord(session'.history)
           /\ session'.cycle_count = session.cycle_count + 1
           /\ session'.status = STATUS_FAILED
           /\ calls' = calls
           /\ timeline' = timeline
     /\ session.status = STATUS_FAILED
        => /\ calls' = calls
           /\ session' = session]_vars

\* the Worker raised in the second cycle and run_async has returned the
\* failed session without a Checker invocation for that cycle
C26_Witness ==
  /\ pc = "done"
  /\ session.status = STATUS_FAILED
  /\ session.last_error = "worker_exception"
  /\ session.cycle_count = 2
  /\ calls.worker = 2
  /\ calls.checker = 1
  /\ cycleJson[2].checker_reason = "worker_exception"

\* C27: when every invocation returns, run_async ends, and it ends with
\* the session completed or failed after at most
\* max_cycles * (1 + max_resets) Worker invocations
C27_RunTerminates ==
  <>[](/\ pc = "done"
       /\ session.status \in {STATUS_COMPLETED, STATUS_FAILED}
       /\ calls.worker <= session.max_cycles * (1 + session.max_resets))

\* a run has used the whole budget of every round and failed
C27_Witness ==
  /\ pc = "done"
  /\ session.status = STATUS_FAILED
  /\ session.max_cycles = MaxCycles
  /\ session.max_resets = MaxResets
  /\ session.reset_count = MaxResets
  /\ calls.worker = MaxCycles * (1 + MaxResets)

\* C28: no step invokes the Worker while the cycle count has reached the
\* budget; the cycle count never exceeds the budget; and the first
\* run_once of a session with budget 0 and no reset policy fails it with
\* max_cycles, no Worker having been invoked
C28_NoWorkerAtBudget ==
  [][/\ session.cycle_count >= session.max_cycles
        => calls'.worker = calls.worker
     /\ session'.cycle_count <= session'.max_cycles
     /\ (/\ pc = "loop"
         /\ session.status = STATUS_PENDING
         /\ session.max_cycles = 0
         /\ ~session.reset_on_max_cycles)
        => /\ session'.status = STATUS_FAILED
           /\ session'.last_error = "max_cycles"
           /\ calls'.worker = 0]_vars

\* a session with budget 0 and no reset policy has failed with max_cycles
\* and no invocation
C28_Witness ==
  /\ pc = "done"
  /\ session.max_cycles = 0
  /\ ~session.reset_on_max_cycles
  /\ session.status = STATUS_FAILED
  /\ session.last_error = "max_cycles"
  /\ calls.worker = 0

\* run_once finds the cycle count at the budget
BudgetReached == pc = "loop" /\ ~Terminal(session) /\ AtBudget(session)

\* C29: at the budget, a session with the reset policy on and its reset
\* counter below the limit goes back to cycle count 0, the task's initial
\* inputs and status pending, its reset counter one higher and no Worker
\* invoked; any other session fails with max_cycles; and the reset counter
\* never exceeds the limit
C29_ResetAtBudget ==
  [][/\ BudgetReached
        => IF session.reset_on_max_cycles
              /\ session.reset_count < session.max_resets
           THEN /\ session'.cycle_count = 0
                /\ session'.input_payload = TaskInputs
                /\ session'.status = STATUS_PENDING
                /\ session'.reset_count = session.reset_count + 1
                /\ session'.history = session.history
                /\ calls' = calls
           ELSE /\ session'.status = STATUS_FAILED
                /\ session'.last_error = "max_cycles"
                /\ session'.reset_count = session.reset_count
                /\ calls' = calls
     /\ session'.reset_count <= session'.max_resets]_vars

\* a session created with an input payload of its own and run to the
\* budget on review feedback has been reset to the task's inputs
C29_Witness ==
  /\ session.reset_count = 1
  /\ session.cycle_count = 0
  /\ session.status = STATUS_PENDING
  /\ session.input_payload = TaskInputs
  /\ Len(session.history) = MaxCycles
  /\ session.history[1].input_payload.kind = "custom"
  /\ session.history[2].input_payload.kind = "review"

\* where an event type stands in a cycle: the start, the Worker events,
\* the Checker events, the end
Phase(type) ==
  IF type = "cycle_start" THEN 0
  ELSE IF type \in {"worker_start", "worker_tool_call", "worker_complete"}
  THEN 1
  ELSE IF type \in {"checker_start", "checker_complete"} THEN 2
  ELSE 3

\* C30: between one cycle_start and the next the events come in the order
\* cycle_start, Worker events, Checker events, cycle_end; and a cycle is
\* announced only when the records of all cycles before it are in the
\* saved session
C30_CycleEventsOrdered ==
  /\ \A j \in 2..Len(timeline) :
       \/ timeline[j].type = "cycle_start"
       \/ Phase(timeline[j - 1].type) <= Phase(timeline[j].type)
  /\ Cardinality({j \in 1..Len(timeline) : timeline[j].type = "cycle_start"})
       <= Len(session.history) + 1

\* the sequence a begins the sequence b
IsPrefix(a, b) == Len(a) <= Len(b) /\ SubSeq(b, 1, Len(a)) = a

\* C33: every write of a session's file keeps the messages the file held,
\* each at its position and with its contents, and only adds messages
\* after them
C33_TranscriptAppendOnly ==
  [][\A s \in Sessions :
       (transcript[s].exists /\ transcript'[s].exists)
       => IsPrefix(transcript[s].messages, transcript'[s].messages)]_vars

\* C38: a permission request returns approved only after a
\* permission_response frame naming it set approved = true on its pending
\* future; a user_response frame, the timeout and a cancel approve nothing;
\* and answers reach an ask-user request only from a user_response frame
C38_OnlyItsFrameAnswers ==
  [][\A r \in ReqIds :
       /\ (/\ requests[r].future = "pending"
           /\ requests'[r].future = "set"
           /\ requests[r].kind = "permission"
           /\ Truthy(requests'[r].value))
          => /\ Handled("permission_response")
             /\ reply'.session = r
             /\ requests'[r].value = "true"
       /\ (/\ requests[r].future = "pending"
           /\ requests'[r].future = "set"
           /\ requests[r].kind = "ask"
           /\ requests'[r].value # "none")
          => /\ Handled("user_response")
             /\ reply'.session = r
       /\ (/\ requests[r].kind = "permission"
           /\ requests[r].pc = "waiting"
           /\ requests'[r].pc = "returned"
           /\ requests'[r].ret = "true")
          => /\ requests[r].future = "set"
             /\ Truthy(requests[r].value)]_requests

\* C34: the permission_request of a tool call goes out on the websocket
\* that the last get_or_create bound to the turn's ManagedSession
C34_PermissionOnBoundChannel ==
  [][\A e \in ExecIds :
       (/\ nextReq' = nextReq + 1
        /\ requests'[nextReq'].kind = "permission"
        /\ requests'[nextReq'].src = e)
       => managed[turn[e].use].callback = managed[turn[e].use].websocket]_vars

\* C40: the history holds one record per executed cycle, no two with the
\* same cycle index, cycle_count is the index of the last record, and a
\* cycle file that was written is never written again
C40_OneRecordPerCycle ==
  [][/\ \A i, j \in 1..Len(session'.history) :
          i # j => session'.history[i].cycle_index
                     # session'.history[j].cycle_index
     /\ session'.history # <<>>
        => session'.cycle_count = LastRecord(session'.history).cycle_index
     /\ \A n \in 1..MaxCycles :
          cycleJson[n] # NoCycle => cycleJson'[n] = cycleJson[n]]_vars

\* C35: an execution whose status is completed or error keeps its status,
\* its error text and its completion timestamp for as long as it exists
C35_TerminalExecutionFrozen ==
  [][\A e \in ExecIds :
       (/\ execution[e].status \in {"completed", "error"}
        /\ execution'[e].task_id = execution[e].task_id)
       => /\ execution'[e].status = execution[e].status
          /\ execution'[e].error = execution[e].error
          /\ execution'[e].completed_at = execution[e].completed_at]_vars

\* C36: what is appended to the cache of an execution was produced by the
\* worker of that execution, nothing is appended to a cache that holds a
\* done or error event, and such an event is the last one of an append
C36_EventsOfCurrentExecution ==
  [][\A e \in ExecIds :
       (/\ execution'[e].task_id = execution[e].task_id
        /\ Len(events'[e]) > Len(events[e]))
       => /\ \A i \in 1..Len(Appended(e)) : Appended(e)[i].src = e
          /\ \A i \in 1..Len(events[e]) : events[e][i].type \notin {"done", "error"}
          /\ \A i \in 1..(Len(Appended(e)) - 1) :
               Appended(e)[i].type \notin {"done", "error"}]_vars

\* subscribe_to_session on an event dict that TaskRunner.subscribe yielded:
\* the session id is written into the metadata of that dict
WithSessionId(ev, s) ==
  [x \in DOMAIN ev \cup {"session_id"} |->
     IF x = "session_id" THEN s ELSE ev[x]]

\* the positions of the cache of state e whose dicts a forwarder that is in
\* its replay loop has been handed
Forwarded(e) ==
  {i \in 1..Len(events[e]) :
     \E c \in Clients, s \in Sessions :
        /\ sub[c][s].phase = "replay"
        /\ sub[c][s].st = e
        /\ i <= sub[c][s].idx}

\* SessionTaskState.events of state e as the dicts are now
Cache(e) ==
  [i \in 1..Len(events[e]) |->
     IF i \in Forwarded(e)
     THEN WithSessionId(events[e][i], execution[e].session_id)
     ELSE events[e][i]]

\* C37: the cache of a session's state holds the events of its log, in the
\* same order and as they were appended, and event_count is their number
C37_CacheLogCountAgree ==
  \A s \in Sessions :
     sessions[s] # NoExec
     => /\ Cache(sessions[s]) = eventsJsonl[s].lines
        /\ execution[sessions[s]].event_count = Len(events[sessions[s]])

\* C31: a Worker invocation that follows a recorded cycle whose Worker
\* returned an external session id is given that id to resume, and a
\* Checker invocation is given none
C31_WorkerResumesPrevious ==
  [][Len(invoked') = Len(invoked) + 1
     => /\ (/\ invoked'[Len(invoked')].role = "worker"
            /\ recorded # <<>>
            /\ recorded[Len(recorded)].llm_result.sdk_session_id # 0)
           => invoked'[Len(invoked')].resume =
                recorded[Len(recorded)].llm_result.sdk_session_id
        /\ invoked'[Len(invoked')].role = "checker"
           => invoked'[Len(invoked')].resume = 0]_vars

\* the Worker of the first cycle after a reset has been given the id that
\* the last cycle before the reset returned, and its Checker none
C31_Witness ==
  /\ session.reset_count = 1
  /\ session.cycle_count = 0
  /\ pc = "checker"
  /\ Len(invoked) = 4
  /\ invoked[3] = [role |-> "worker", resume |-> 1]
  /\ invoked[4] = [role |-> "checker", resume |-> 0]

C39_EachEventOnceInOrder ==
  \A w \in DOMAIN wsock : IsPrefix(wsock[w].got, event_history)

====
